---- MODULE Spec2Model ----
(***************************************************************************)
(* A model of weewx-realtime_data (bin/user/rtd.py, bin/user/gaugedata.py): *)
(* the observation accumulators (ScalarBuffer, VectorBuffer), the Buffer    *)
(* of accumulators fed by loop packets, the CachedPacket loop packet cache  *)
(* and the threads that share the Buffer and its lock.                      *)
(*                                                                          *)
(* Observation values are floats in the program; the model uses integers.   *)
(* Python's None is the integer None below, which lies outside every set    *)
(* of values and timestamps the model draws from.                           *)
(***************************************************************************)
EXTENDS Integers, Sequences, FiniteSets, TLC

None == 0 - 99999

\* length of history to be maintained in seconds
MAX_AGE == 600

\* weewx.US and weewx.METRIC
US == 1
METRIC == 16

(***************************************************************************)
(* Bounds of the model.                                                     *)
(***************************************************************************)
\* number of add_value / day_reset calls made on the lone accumulator
MaxOps == 3

\* sample values, wind directions and timestamps fed to the lone accumulator
AccVals == {None, 0 - 1, 0, 2}
AccDirs == {None, 90, 180}
AccTimes == {0, 60, 700}

\* the ages history_max is asked for
HistAges == {60, MAX_AGE}

\* number of calls made on the CachedPacket object
MaxCacheOps == 3

\* fields, values, timestamps and unit systems of the packets given to
\* CachedPacket.update, and the arguments given to CachedPacket.get_packet
CacheFields == {"outTemp", "windGust"}
CacheVals == {None, 123}
CacheTimes == {100, 200}
CacheUnits == {US, METRIC}
GetTimes == {250, 800}
GetAges == {50, 600}

\* number of loop packets given to Buffer.add_packet
MaxPackets == 2

\* number of loop packets and of gauge-data generations when the ingesting
\* thread and a generator thread run side by side, and the packets they get
MaxLockPackets == 2
MaxGenerations == 2
LockPackets ==
    {[outTemp |-> 7, windSpeed |-> 10, windDir |-> 180, dateTime |-> 60,
      usUnits |-> US],
     [outTemp |-> 7, windSpeed |-> 10, windDir |-> 180, dateTime |-> 86460,
      usUnits |-> US],
     [windSpeed |-> None, windDir |-> None, dateTime |-> 120, usUnits |-> US]}

\* the loop packets: the observations they carry, their timestamps (two in
\* the day the buffer is built for and two in the next day) and unit systems
BufShapes ==
    {[outTemp |-> 5], [outTemp |-> None],
     [windSpeed |-> 5, windDir |-> 90], [windSpeed |-> 5],
     [windSpeed |-> None, windDir |-> None],
     [outTemp |-> 7, windSpeed |-> 10, windDir |-> 180],
     [windSpeed |-> 5, windrun |-> 1]}
MetricShapes == {[outTemp |-> 10], [windSpeed |-> 10, windDir |-> 90]}
BufTimes == {60, 120, 86460, 86520}

\* number of loop packets fed to a fresh Buffer, what they carry and when
MaxFeed == 3
FeedShapes ==
    {[windSpeed |-> 5, windDir |-> 90], [windSpeed |-> 10, windDir |-> 180],
     [windSpeed |-> None, windDir |-> None], [outTemp |-> 5],
     [outTemp |-> 0 - 1, windDir |-> 90]}
FeedTimes == {0, 60, 120}

\* number of loop packets of the stations of SpecWind, and their times: two
\* in the day the buffer is built for and one in the next day
MaxWindPackets == 3
WindTimes == {60, 120, 82860}

\* number of packages put on the control queue of a generator thread before
\* the shutdown signal, and their types
MaxPuts == 7
PackageTypes == {"loop", "archive", "stats"}

\* number of generator threads of the service, number of loop packets the
\* service receives, and the packets
MaxThreads == 2
MaxServicePackets == 3
ServiceShapes ==
    {[outTemp |-> 5], [windSpeed |-> 5, windDir |-> 90],
     [windSpeed |-> None, windDir |-> None]}
ServiceTimes == {60, 120, 86460}

\* the values of max_cache_age in the configuration of the generators
MaxCacheAges == {30, 600}

\* the generator threads at work: their number, the loop packets the service
\* receives, the readings of the clock, the configured min_interval (None
\* when omitted) and weewx.debug
NWorkers == 2
MaxWorkerPackets == 2
WorkerShapes == {[outTemp |-> 5]}
LoopPeriod == 60
ClockStart == 10
MaxClock == 13
MinIntervals == {None, 0, 2}
DebugLevels == {0, 2}

\* the day the buffer is built for
DayStart == 0
DayStop == 86400

\* the day of a station one hour east of Greenwich on 1 January 1970, which
\* holds the timestamps 0, 60 and 120
FeedDayStart == 0 - 3600
FeedDayStop == 82800

VARIABLES
    buffer,     \* the Buffer dict: obs -> accumulator
    timespan,   \* Buffer.timespan
    last_windSpeed_ts,  \* Buffer.last_windSpeed_ts
    std_unit_system,    \* Buffer.std_unit_system
    lock,       \* Buffer.lock: "free" or the thread that holds it
    call,       \* the last call made on the Buffer and how it ended
    npackets,   \* number of loop packets received
    fed,        \* the loop packets given to add_packet so far, in order
    ipc,        \* where the ingesting thread is in Buffer.add_packet
    itodo,      \* the observations add_packet has still to add
    idirty,     \* has the add_packet under way reset or fed an accumulator?
    wbuffer,    \* RealtimeGaugeDataThread.buffer is the Buffer (else None)
    wpc,        \* where the generator thread is in calculate
    wdata,      \* the aggregates calculate has read from the Buffer
    ngen,       \* number of gauge-data generations started
    acc,        \* an ObservationBuffer object on its own
    accOp,      \* the last call made on acc and the state it found
    accLog,     \* the non-null samples given to acc since it was empty
    nops,       \* number of calls made on acc
    cache,      \* CachedPacket.cache: obs -> [value, ts]
    cache_std_unit_system,  \* CachedPacket.std_unit_system
    cacheOp,    \* the last call made on the CachedPacket object
    ncache,     \* number of calls made on the CachedPacket object
    control_queue,  \* the control queue of a RealtimeGaugeDataThread
    rpc,        \* where the thread is in run: "get", "handle", "trim", "done"
    rpkg,       \* the type of the package run is handling
    nput,       \* number of packages put on the control queue
    sentinel,   \* the shutdown signal: "no", "queued", "taken" or "dropped"
    rafter,     \* has run just finished handling a package?
    rdropped,   \* number of packages the trimming of the queue discarded
    rexit,      \* why run returned: "none", "sentinel" or "exception"
    rose,       \* RealtimeGaugeDataThread.rose: the number of the
                \* calc_windrose call whose result it holds, 0 for None
    rlast,      \* the type of the package run handled last
    generators, \* RealtimeData.generators: is the thread alive, and the
                \* packages put on its control queue
    svcOp,      \* the last call of a method of the service and how it ended,
                \* and the loop packets for which new_loop_packet returned
    now,        \* the clock read by time.time()
    workers,    \* the RealtimeGaugeDataThread objects of the generators:
                \* min_interval, exporter, last_write, lost_contact_flag
    wrkOp       \* the last package a generator thread took from its control
                \* queue and how its processing ended

bufVars == <<buffer, timespan, last_windSpeed_ts, std_unit_system, lock,
             call, npackets, fed>>
thrVars == <<ipc, itodo, idirty, wbuffer, wpc, wdata, ngen>>
accVars == <<acc, accOp, accLog, nops>>
cacheVars == <<cache, cache_std_unit_system, cacheOp, ncache>>
runVars == <<control_queue, rpc, rpkg, nput, sentinel, rafter, rdropped, rexit,
             rose, rlast>>
svcVars == <<generators, svcOp>>
wrkVars == <<now, workers, wrkOp>>

vars == <<buffer, timespan, last_windSpeed_ts, std_unit_system, lock, call,
          npackets, fed, ipc, itodo, idirty, wbuffer, wpc, wdata, ngen, acc, accOp, accLog,
          nops, cache, cache_std_unit_system, cacheOp,
          ncache, control_queue, rpc, rpkg, nput, sentinel, rafter, rdropped,
          rexit, rose, rlast, generators, svcOp, now, workers, wrkOp>>

(***************************************************************************)
(* Helpers                                                                  *)
(***************************************************************************)
SetMin(S) == CHOOSE x \in S : \A y \in S : x <= y

\* math.cos(math.radians(d)) and math.sin(math.radians(d)) for the multiples
\* of 90 degrees the model uses (the float results are within 2e-16 of these)
CosDeg(d) ==
    LET m == d % 360 IN IF m = 0 THEN 1 ELSE IF m = 180 THEN 0 - 1 ELSE 0

SinDeg(d) ==
    LET m == d % 360 IN IF m = 90 THEN 1 ELSE IF m = 270 THEN 0 - 1 ELSE 0

\* F applied to the value of v, with v evaluated once
With(v, F(_)) == CHOOSE r \in {F(x) : x \in {v}} : TRUE

\* a dict as a function: the empty dict, and d[k] = v
EmptyDict == [k \in {} |-> None]

DictSet(d, k, v) == [x \in DOMAIN d \cup {k} |-> IF x = k THEN v ELSE d[x]]

\* a packet: the fields of f plus dateTime and usUnits
MkPacket(f, ts, units) ==
    [k \in DOMAIN f \cup {"dateTime", "usUnits"} |->
        IF k = "dateTime" THEN ts ELSE IF k = "usUnits" THEN units ELSE f[k]]

PacketsOver(fields, vals, times, units) ==
    UNION {{MkPacket(f, ts, u) : f \in [F -> vals], ts \in times, u \in units} :
           F \in SUBSET fields}

(***************************************************************************)
(* weewx.units, as far as the program uses it.  The conversion between unit *)
(* systems is a library function; the model scales every value by 2 from US *)
(* to METRIC and halves it the other way, and leaves None, directions,      *)
(* timestamps and the other unitless fields alone.                          *)
(***************************************************************************)
Unscaled == {"dateTime", "usUnits", "windDir", "windGustDir",
             "outHumidity", "inHumidity", "UV"}

convertStd(obs, val, from_system, to_system) ==
    IF val = None \/ from_system = to_system \/ obs \in Unscaled THEN val
    ELSE IF from_system = US THEN val * 2
    ELSE val \div 2

to_std_system(packet, unit_system) ==
    IF packet["usUnits"] = unit_system THEN packet
    ELSE [k \in DOMAIN packet |->
            IF k = "usUnits" THEN unit_system
            ELSE convertStd(k, packet[k], packet["usUnits"], unit_system)]

\* stats=None as passed by Buffer.add_value and Buffer.add_wind_value
NoStats == [present |-> FALSE]

(***************************************************************************)
(* class ObservationBuffer                                                  *)
(***************************************************************************)
\* ObsTuple(value, ts)
ObsTuple(value, ts) == <<value, ts>>

\* VectorTuple(mag, dir)
VectorTuple(mag, dir) == <<mag, dir>>

\* The fields ObservationBuffer.__init__ sets.  An accumulator built with
\* history=False has no history and no history_full attribute: the model
\* keeps them at <<>> and FALSE, and use_history tells the two apart.
ObservationBuffer_init(units, history) ==
    [units |-> units, last |-> None, lasttime |-> None,
     use_history |-> history, history_full |-> FALSE, history |-> <<>>]

trim_history(self, ts) ==
    LET oldest_ts == ts - MAX_AGE
        tss == {self.history[i][2] : i \in 1..Len(self.history)} \ {None}
    IN  [self EXCEPT !.history_full = (SetMin(tss) <= oldest_ts),
                     !.history = SelectSeq(self.history,
                                           LAMBDA s : s[2] > oldest_ts)]

\* ObservationBuffer.history_max.  max(snapshot, key=itemgetter(1)) compares
\* item 1 of the ObsTuples, their ts, and returns the first entry that has
\* the greatest one.  An accumulator built without history has no attribute
\* history.  The result None is the record with none TRUE.
history_max(self, ts, age) ==
    LET born == ts - age
        snapshot == SelectSeq(self.history, LAMBDA a : a[2] >= born)
        n == Len(snapshot)
        best == CHOOSE i \in 1..n :
                    /\ \A j \in 1..n : snapshot[j][2] <= snapshot[i][2]
                    /\ \A j \in 1..(i - 1) : snapshot[j][2] < snapshot[i][2]
    IN  IF ~self.use_history
          THEN [err |-> "AttributeError", none |-> TRUE, value |-> None,
                ts |-> None]
        ELSE IF n > 0
          THEN [err |-> "none", none |-> FALSE, value |-> snapshot[best][1],
                ts |-> snapshot[best][2]]
        ELSE [err |-> "none", none |-> TRUE, value |-> None, ts |-> None]

\* sum(snapshot) for the values of a snapshot of scalars
RECURSIVE SumSeq(_)
SumSeq(q) == IF q = <<>> THEN 0 ELSE Head(q) + SumSeq(Tail(q))

\* ObservationBuffer.history_avg.  The float sum(snapshot)/len(snapshot) is
\* kept as the pair num, den.  sum() starts from 0, so that a snapshot of
\* VectorTuples (the history of a VectorBuffer) raises TypeError.
history_avg(self, ts, age) ==
    LET born == ts - age
        kept == SelectSeq(self.history, LAMBDA a : a[2] >= born)
        n == Len(kept)
    IN  IF ~self.use_history
          THEN [err |-> "AttributeError", none |-> TRUE, num |-> 0, den |-> 1]
        ELSE IF n = 0
          THEN [err |-> "none", none |-> TRUE, num |-> 0, den |-> 1]
        ELSE IF self.kind = "vector"
          THEN [err |-> "TypeError", none |-> TRUE, num |-> 0, den |-> 1]
        ELSE [err |-> "none", none |-> FALSE,
              num |-> SumSeq([i \in 1..n |-> kept[i][1]]), den |-> n]

(***************************************************************************)
(* class ScalarBuffer                                                       *)
(***************************************************************************)
ScalarBuffer_init(stats, units, history) ==
    LET base == ObservationBuffer_init(units, history)
    IN  [kind |-> "scalar",
         units |-> base.units, last |-> base.last, lasttime |-> base.lasttime,
         use_history |-> base.use_history,
         history_full |-> base.history_full, history |-> base.history,
         min     |-> IF stats.present THEN stats.min ELSE None,
         mintime |-> IF stats.present THEN stats.mintime ELSE None,
         max     |-> IF stats.present THEN stats.max ELSE None,
         maxtime |-> IF stats.present THEN stats.maxtime ELSE None,
         sum     |-> IF stats.present THEN stats.sum ELSE 0,
         count   |-> IF stats.present THEN stats.count ELSE 0]

\* ScalarBuffer.add_value without its "val is not None" test on count
ScalarBuffer_add_value_countsNull(self, val, ts, hilo) ==
    IF val = None THEN [self EXCEPT !.count = @ + 1]
    ELSE
      LET newmin == hilo /\ (self.min = None \/ val < self.min)
          newmax == hilo /\ (self.max = None \/ val > self.max)
          newlast == self.lasttime = None \/ ts >= self.lasttime
          a1 == [self EXCEPT
                   !.min = IF newmin THEN val ELSE @,
                   !.mintime = IF newmin THEN ts ELSE @,
                   !.max = IF newmax THEN val ELSE @,
                   !.maxtime = IF newmax THEN ts ELSE @,
                   !.sum = @ + val,
                   !.last = IF newlast THEN val ELSE @,
                   !.lasttime = IF newlast THEN ts ELSE @,
                   !.count = @ + 1]
      IN  IF self.use_history
            THEN trim_history([a1 EXCEPT !.history = Append(@, ObsTuple(val, ts))], ts)
            ELSE a1

\* ScalarBuffer.add_value setting max only while it is None
ScalarBuffer_add_value_firstMax(self, val, ts, hilo) ==
    IF val = None THEN self
    ELSE
      LET newmin == hilo /\ (self.min = None \/ val < self.min)
          newmax == hilo /\ self.max = None
          newlast == self.lasttime = None \/ ts >= self.lasttime
          a1 == [self EXCEPT
                   !.min = IF newmin THEN val ELSE @,
                   !.mintime = IF newmin THEN ts ELSE @,
                   !.max = IF newmax THEN val ELSE @,
                   !.maxtime = IF newmax THEN ts ELSE @,
                   !.sum = @ + val,
                   !.last = IF newlast THEN val ELSE @,
                   !.lasttime = IF newlast THEN ts ELSE @,
                   !.count = @ + 1]
      IN  IF self.use_history
            THEN trim_history([a1 EXCEPT !.history = Append(@, ObsTuple(val, ts))], ts)
            ELSE a1

ScalarBuffer_add_value(self, val, ts, hilo) ==
    IF val = None THEN self
    ELSE
      LET newmin == hilo /\ (self.min = None \/ val < self.min)
          newmax == hilo /\ (self.max = None \/ val > self.max)
          newlast == self.lasttime = None \/ ts >= self.lasttime
          a1 == [self EXCEPT
                   !.min = IF newmin THEN val ELSE @,
                   !.mintime = IF newmin THEN ts ELSE @,
                   !.max = IF newmax THEN val ELSE @,
                   !.maxtime = IF newmax THEN ts ELSE @,
                   !.sum = @ + val,
                   !.last = IF newlast THEN val ELSE @,
                   !.lasttime = IF newlast THEN ts ELSE @,
                   !.count = @ + 1]
      IN  IF self.use_history
            THEN trim_history([a1 EXCEPT !.history = Append(@, ObsTuple(val, ts))], ts)
            ELSE a1

\* ScalarBuffer.day_reset emptying the history as well
ScalarBuffer_day_reset_clearsHistory(self) ==
    [self EXCEPT !.min = None, !.mintime = None, !.max = None,
                 !.maxtime = None, !.sum = 0, !.count = 0, !.history = <<>>]

\* ScalarBuffer.day_reset leaving sum as it was
ScalarBuffer_day_reset_keepsSum(self) ==
    [self EXCEPT !.min = None, !.mintime = None, !.max = None,
                 !.maxtime = None, !.count = 0]

ScalarBuffer_day_reset(self) ==
    [self EXCEPT !.min = None, !.mintime = None, !.max = None,
                 !.maxtime = None, !.sum = 0, !.count = 0]

(***************************************************************************)
(* class VectorBuffer                                                       *)
(***************************************************************************)
VectorBuffer_init(stats, units, history) ==
    LET base == ObservationBuffer_init(units, history)
    IN  [kind |-> "vector",
         units |-> base.units, last |-> base.last, lasttime |-> base.lasttime,
         use_history |-> base.use_history,
         history_full |-> base.history_full, history |-> base.history,
         min     |-> IF stats.present THEN stats.min ELSE None,
         mintime |-> IF stats.present THEN stats.mintime ELSE None,
         max     |-> IF stats.present THEN stats.max ELSE None,
         max_dir |-> IF stats.present THEN stats.max_dir ELSE None,
         maxtime |-> IF stats.present THEN stats.maxtime ELSE None,
         sum     |-> IF stats.present THEN stats.sum ELSE 0,
         xsum    |-> IF stats.present THEN stats.xsum ELSE 0,
         ysum    |-> IF stats.present THEN stats.ysum ELSE 0,
         sumtime |-> IF stats.present THEN stats.sumtime ELSE 0,
         count   |-> IF stats.present THEN stats.count ELSE 0]

\* VectorBuffer.add_value assigning last and lasttime whatever the timestamp
VectorBuffer_add_value_lastAlways(self, val, ts, hilo) ==
    IF val[1] = None THEN self
    ELSE
      LET mag == val[1]
          dir == val[2]
          newmin == hilo /\ (self.min = None \/ mag < self.min)
          newmax == hilo /\ (self.max = None \/ mag > self.max)
          timed == self.lasttime # None /\ self.lasttime # 0
          a1 == [self EXCEPT
                   !.min = IF newmin THEN mag ELSE @,
                   !.mintime = IF newmin THEN ts ELSE @,
                   !.max = IF newmax THEN mag ELSE @,
                   !.max_dir = IF newmax THEN dir ELSE @,
                   !.maxtime = IF newmax THEN ts ELSE @,
                   !.sum = @ + mag,
                   !.sumtime = IF timed THEN @ + (ts - self.lasttime) ELSE @,
                   !.xsum = IF dir # None THEN @ + mag * CosDeg(90 - dir) ELSE @,
                   !.ysum = IF dir # None THEN @ + mag * SinDeg(90 - dir) ELSE @,
                   !.last = val,
                   !.lasttime = ts,
                   !.count = @ + 1]
      IN  IF self.use_history /\ dir # None
            THEN trim_history([a1 EXCEPT !.history = Append(@, ObsTuple(val, ts))], ts)
            ELSE a1

\* val is a VectorTuple: val[1] is val.mag, val[2] is val.dir
VectorBuffer_add_value(self, val, ts, hilo) ==
    IF val[1] = None THEN self
    ELSE
      LET mag == val[1]
          dir == val[2]
          newmin == hilo /\ (self.min = None \/ mag < self.min)
          newmax == hilo /\ (self.max = None \/ mag > self.max)
          \* "if self.lasttime:" is false for None and for 0
          timed == self.lasttime # None /\ self.lasttime # 0
          newlast == self.lasttime = None \/ ts >= self.lasttime
          a1 == [self EXCEPT
                   !.min = IF newmin THEN mag ELSE @,
                   !.mintime = IF newmin THEN ts ELSE @,
                   !.max = IF newmax THEN mag ELSE @,
                   !.max_dir = IF newmax THEN dir ELSE @,
                   !.maxtime = IF newmax THEN ts ELSE @,
                   !.sum = @ + mag,
                   !.sumtime = IF timed THEN @ + (ts - self.lasttime) ELSE @,
                   !.xsum = IF dir # None THEN @ + mag * CosDeg(90 - dir) ELSE @,
                   !.ysum = IF dir # None THEN @ + mag * SinDeg(90 - dir) ELSE @,
                   !.last = IF newlast THEN val ELSE @,
                   !.lasttime = IF newlast THEN ts ELSE @,
                   !.count = @ + 1]
      IN  IF self.use_history /\ dir # None
            THEN trim_history([a1 EXCEPT !.history = Append(@, ObsTuple(val, ts))], ts)
            ELSE a1

VectorBuffer_day_reset(self) ==
    [self EXCEPT !.min = None, !.mintime = None, !.max = None,
                 !.max_dir = None, !.maxtime = None, !.sum = 0,
                 !.xsum = 0, !.ysum = 0, !.sumtime = 0, !.count = 0]

\* VectorBuffer.day_vec_avg without its except clause
day_vec_avg_raises(self) ==
    IF self.sumtime = 0
      THEN [err |-> "ZeroDivisionError", zero |-> FALSE, mag2 |-> <<0, 1>>,
            atan2 |-> <<0, 0>>]
      ELSE [err |-> "none", zero |-> FALSE,
            mag2 |-> <<self.xsum * self.xsum + self.ysum * self.ysum,
                       self.sumtime * self.sumtime>>,
            atan2 |-> <<self.ysum, self.xsum>>]

\* VectorBuffer.day_vec_avg.  When sumtime is not 0 the magnitude is
\* sqrt(mag2[1] / mag2[2]) and the direction is 90 - degrees(atan2(ysum,
\* xsum)) brought into [0, 360); the model keeps the operands of sqrt and
\* atan2.  VectorTuple(0.0, 0.0) is the result with zero TRUE.
day_vec_avg(self) ==
    IF self.sumtime = 0
      THEN [err |-> "none", zero |-> TRUE, mag2 |-> <<0, 1>>,
            atan2 |-> <<0, 0>>]
      ELSE [err |-> "none", zero |-> FALSE,
            mag2 |-> <<self.xsum * self.xsum + self.ysum * self.ysum,
                       self.sumtime * self.sumtime>>,
            atan2 |-> <<self.ysum, self.xsum>>]

\* obj.add_value(val, ts) and obj.day_reset() dispatched on the object's class
add_value(self, val, ts) ==
    IF self.kind = "vector" THEN VectorBuffer_add_value(self, val, ts, TRUE)
                            ELSE ScalarBuffer_add_value(self, val, ts, TRUE)

day_reset(self) ==
    IF self.kind = "vector" THEN VectorBuffer_day_reset(self)
                            ELSE ScalarBuffer_day_reset(self)

(***************************************************************************)
(* class Buffer                                                             *)
(***************************************************************************)
\* list of obs that we will attempt to buffer
MANIFEST == <<"outTemp", "barometer", "outHumidity", "rain", "rainRate",
              "humidex", "windchill", "heatindex", "windSpeed", "inTemp",
              "appTemp", "dewpoint", "windDir", "UV", "radiation", "wind",
              "windGust", "windGustDir", "windrun">>

ManifestSet == {MANIFEST[i] : i \in 1..Len(MANIFEST)}

\* obs for which we need a history
HIST_MANIFEST == {"windSpeed", "windDir", "windGust", "wind"}

\* init_dict.get(obs, ScalarBuffer)(stats=stats, units=units, history=history)
init_dict_get(obs, stats, units, history) ==
    IF obs = "wind" THEN VectorBuffer_init(stats, units, history)
    ELSE ScalarBuffer_init(stats, units, history)

\* TimeSpan.includesArchiveTime
includesArchiveTime(span, ts) == span[1] < ts /\ ts <= span[2]

\* Buffer.start_of_day_reset: self[obs].day_reset() for the obs of the
\* manifest in order; self[obs] raises KeyError at the first obs that has no
\* accumulator and the accumulators before it stay reset.
start_of_day_reset(buf) ==
    LET missing == {i \in 1..Len(MANIFEST) : MANIFEST[i] \notin DOMAIN buf}
        stop == IF missing = {} THEN Len(MANIFEST) + 1 ELSE SetMin(missing)
        done == {MANIFEST[i] : i \in 1..(stop - 1)}
    IN  [buffer |-> [o \in DOMAIN buf |->
                        IF o \in done THEN day_reset(buf[o]) ELSE buf[o]],
         err |-> IF missing = {} THEN "none" ELSE "KeyError"]

\* Buffer.add_value.  The accumulator of 'wind' is a VectorBuffer, whose
\* add_value reads val.mag: a packet field 'wind' (a number or None) raises
\* AttributeError there.
Buffer_add_value(buf, packet, obs) ==
    LET b1 == IF obs \in DOMAIN buf THEN buf
              ELSE DictSet(buf, obs,
                           init_dict_get(obs, NoStats, packet["usUnits"],
                                         obs \in HIST_MANIFEST))
        _value == IF b1[obs].units = packet["usUnits"] THEN packet[obs]
                  ELSE convertStd(obs, packet[obs], packet["usUnits"],
                                  b1[obs].units)
    IN  IF b1[obs].kind = "vector"
          THEN [buffer |-> b1, err |-> "AttributeError"]
          ELSE [buffer |-> DictSet(b1, obs,
                                   add_value(b1[obs], _value, packet["dateTime"])),
                err |-> "none"]

\* Buffer.calc_windrun for weewx.US and weewx.METRIC.  The model holds
\* windrun in units of 1/3600 of a mile or km, so that the division by
\* 3600.0 is exact.
calc_windrun(buf, last_ts, packet) ==
    LET val == packet["windSpeed"] * (packet["dateTime"] - last_ts)
    IN  IF buf["windrun"].units = packet["usUnits"] THEN val
        ELSE convertStd("windrun", val, packet["usUnits"], buf["windrun"].units)

\* Buffer.add_wind_value after its call of add_value: the windrun derived
\* from windSpeed (lines 647-658)
add_wind_value_windrun(buf, last_ts, packet, obs) ==
    LET ts == packet["dateTime"]
        derive == "windrun" \notin DOMAIN packet /\ obs = "windSpeed"
        b2 == IF derive /\ "windrun" \notin DOMAIN buf
                THEN DictSet(buf, "windrun",
                             init_dict_get(obs, NoStats, packet["usUnits"],
                                           obs \in HIST_MANIFEST))
                ELSE buf
        integrate == derive /\ last_ts # None
    IN  IF integrate /\ packet["windSpeed"] = None
          \* None * (dateTime - last_windSpeed_ts) in calc_windrun
          THEN [buffer |-> b2, last_windSpeed_ts |-> last_ts, err |-> "TypeError"]
        ELSE IF integrate
          THEN [buffer |-> DictSet(b2, "windrun",
                                   add_value(b2["windrun"],
                                             calc_windrun(b2, last_ts, packet),
                                             ts)),
                last_windSpeed_ts |-> ts, err |-> "none"]
        ELSE [buffer |-> b2,
              last_windSpeed_ts |-> IF derive THEN ts ELSE last_ts,
              err |-> "none"]

\* Buffer.add_wind_value at its end: the special vector 'wind' (lines 661-671)
add_wind_value_wind(buf, packet, obs) ==
    LET units == packet["usUnits"]
        b4 == IF "wind" \notin DOMAIN buf
                THEN DictSet(buf, "wind", VectorBuffer_init(NoStats, units, FALSE))
                ELSE buf
        _value == IF b4["wind"].units = units THEN packet["windSpeed"]
                  ELSE convertStd("windSpeed", packet["windSpeed"], units,
                                  b4["wind"].units)
        _dir == IF "windDir" \in DOMAIN packet THEN packet["windDir"] ELSE None
    IN  IF obs = "windSpeed"
          THEN DictSet(b4, "wind",
                       add_value(b4["wind"], VectorTuple(_value, _dir),
                                 packet["dateTime"]))
          ELSE buf

\* Buffer.add_wind_value
Buffer_add_wind_value(buf, last_ts, packet, obs) ==
    With(Buffer_add_value(buf, packet, obs), LAMBDA r1 :
      IF r1.err # "none"
        THEN [buffer |-> r1.buffer, last_windSpeed_ts |-> last_ts,
              err |-> r1.err]
        ELSE With(add_wind_value_windrun(r1.buffer, last_ts, packet, obs),
                  LAMBDA r2 :
               IF r2.err # "none" THEN r2
               ELSE [r2 EXCEPT !.buffer = add_wind_value_wind(@, packet, obs)]))

\* add_functions.get(obs, Buffer.add_value)(self, packet, obs)
add_func(buf, last_ts, packet, obs) ==
    IF obs = "windSpeed" THEN Buffer_add_wind_value(buf, last_ts, packet, obs)
    ELSE LET r == Buffer_add_value(buf, packet, obs)
         IN  [buffer |-> r.buffer, last_windSpeed_ts |-> last_ts, err |-> r.err]

\* [f for f in _conv_packet if f in self.manifest]: the model iterates over
\* the fields of a packet in the order of the manifest
RECURSIVE ObsOf(_, _)
ObsOf(packet, i) ==
    IF i > Len(MANIFEST) THEN <<>>
    ELSE IF MANIFEST[i] \in DOMAIN packet
      THEN <<MANIFEST[i]>> \o ObsOf(packet, i + 1)
      ELSE ObsOf(packet, i + 1)

(***************************************************************************)
(* The steps of Buffer.add_packet on the state                              *)
(*   st = [buffer, last_windSpeed_ts, std_unit_system, lock, outcome].      *)
(* Each step takes the lock, works and releases the lock.  A step that     *)
(* finds the lock taken never returns ("blocked"); a step whose work raises *)
(* leaves add_packet with the lock still held.                              *)
(***************************************************************************)
\* lines 609-611
ResetStep(st, who) ==
    IF st.lock # "free" THEN [st EXCEPT !.outcome = "blocked"]
    ELSE With(start_of_day_reset(st.buffer), LAMBDA r :
           IF r.err = "none" THEN [st EXCEPT !.buffer = r.buffer]
           ELSE [st EXCEPT !.buffer = r.buffer, !.lock = who,
                           !.outcome = r.err])

\* lines 613-615
UnitStep(st, packet) ==
    IF st.lock # "free" THEN [st EXCEPT !.outcome = "blocked"]
    ELSE [st EXCEPT !.std_unit_system = packet["usUnits"]]

\* lines 619-621
ObsStep(st, _conv_packet, obs, who) ==
    IF st.lock # "free" THEN [st EXCEPT !.outcome = "blocked"]
    ELSE With(add_func(st.buffer, st.last_windSpeed_ts, _conv_packet, obs),
              LAMBDA r :
           IF r.err = "none"
             THEN [st EXCEPT !.buffer = r.buffer,
                             !.last_windSpeed_ts = r.last_windSpeed_ts]
             ELSE [st EXCEPT !.buffer = r.buffer,
                             !.last_windSpeed_ts = r.last_windSpeed_ts,
                             !.lock = who, !.outcome = r.err])

RECURSIVE ObsLoop(_, _, _, _)
ObsLoop(st, _conv_packet, todo, who) ==
    IF st.outcome # "running" \/ todo = <<>> THEN st
    ELSE With(ObsStep(st, _conv_packet, Head(todo), who), LAMBDA s1 :
           ObsLoop(s1, _conv_packet, Tail(todo), who))

\* Buffer.add_packet as one call of thread who, with no other thread running
Buffer_add_packet(st0, span, packet, who) ==
    IF packet["dateTime"] = None THEN [st0 EXCEPT !.outcome = "returned"]
    ELSE
      With(IF ~includesArchiveTime(span, packet["dateTime"])
             THEN ResetStep(st0, who) ELSE st0, LAMBDA s1 :
      With(IF s1.outcome = "running" /\ s1.std_unit_system = None
             THEN UnitStep(s1, packet) ELSE s1, LAMBDA s2 :
      With(to_std_system(packet, s2.std_unit_system), LAMBDA _conv_packet :
      With(IF s2.outcome = "running"
             THEN ObsLoop(s2, _conv_packet, ObsOf(_conv_packet, 1), who)
             ELSE s2, LAMBDA s3 :
      IF s3.outcome = "running" THEN [s3 EXCEPT !.outcome = "returned"]
      ELSE s3))))

(***************************************************************************)
(* Buffer.seed and the day summaries RealtimeData.__init__ seeds from       *)
(***************************************************************************)
\* the stats of one obs in a day summary (weewx.accum ScalarStats, VecStats)
SeedScalarStats ==
    [present |-> TRUE, min |-> 1, mintime |-> 10, max |-> 9, maxtime |-> 20,
     sum |-> 20, count |-> 4]

SeedVecStats ==
    [present |-> TRUE, min |-> 1, mintime |-> 10, max |-> 9, max_dir |-> 90,
     maxtime |-> 20, sum |-> 20, xsum |-> 20, ysum |-> 0, sumtime |-> 30,
     count |-> 4]

\* a day summary with the given obs types, in unit system US
DaySummary(types) ==
    [unit_system |-> US,
     stats |-> [o \in types |-> IF o = "wind" THEN SeedVecStats
                                ELSE SeedScalarStats]]

\* the day summaries: an empty database, one whose schema has every obs of
\* the manifest, and one whose schema lacks appTemp and humidex
DaySummaries ==
    {DaySummary({}), DaySummary(ManifestSet),
     DaySummary(ManifestSet \ {"appTemp", "humidex"})}

\* Buffer.seed with seed_scalar and seed_vector
Buffer_seed(buf, summary) ==
    [o \in DOMAIN buf \cup (DOMAIN summary.stats \cap ManifestSet) |->
        IF o \in DOMAIN summary.stats \cap ManifestSet
          THEN init_dict_get(o, summary.stats[o], summary.unit_system,
                             o \in HIST_MANIFEST)
          ELSE buf[o]]

\* RealtimeData.__init__: the Buffer with its debugging entry 'fred', seeded
\* from today's day summary unless that is empty.  today_stats is a dict of
\* obs types whose unit system is an attribute, so
\* today_stats.get('unit_system') is None.
BufInit ==
    /\ \E summary \in DaySummaries :
         buffer = IF DOMAIN summary.stats = {}
                    THEN DictSet(EmptyDict, "fred", [kind |-> "int", value |-> 23])
                    ELSE Buffer_seed(DictSet(EmptyDict, "fred",
                                             [kind |-> "int", value |-> 23]),
                                     summary)
    /\ timespan = <<DayStart, DayStop>>
    /\ last_windSpeed_ts = None
    /\ std_unit_system = None
    /\ lock = "free"
    /\ call = [op |-> "init", packet |-> EmptyDict, outcome |-> "returned",
               crossed |-> FALSE, before |-> buffer]
    /\ npackets = 0
    /\ fed = <<>>

\* the Buffer, when a specification does not use it
BufIdle ==
    /\ buffer = EmptyDict
    /\ timespan = <<DayStart, DayStop>>
    /\ last_windSpeed_ts = None
    /\ std_unit_system = None
    /\ lock = "free"
    /\ call = [op |-> "init", packet |-> EmptyDict, outcome |-> "returned",
               crossed |-> FALSE, before |-> EmptyDict]
    /\ npackets = 0
    /\ fed = <<>>

BufPackets ==
    {MkPacket(f, ts, US) : f \in BufShapes, ts \in BufTimes}
      \cup {MkPacket(f, ts, METRIC) : f \in MetricShapes, ts \in BufTimes}

\* self.buffer.add_packet(packet) called by the ingesting thread
add_packet_call(packet) ==
    \E st \in {Buffer_add_packet(
                  [buffer |-> buffer,
                   last_windSpeed_ts |-> last_windSpeed_ts,
                   std_unit_system |-> std_unit_system,
                   lock |-> lock, outcome |-> "running"],
                  timespan, packet, "ingest")} :
        /\ buffer' = st.buffer
        /\ last_windSpeed_ts' = st.last_windSpeed_ts
        /\ std_unit_system' = st.std_unit_system
        /\ lock' = st.lock
        /\ call' = [op |-> "add_packet", packet |-> packet,
                    outcome |-> st.outcome,
                    crossed |-> ~includesArchiveTime(timespan,
                                                     packet["dateTime"]),
                    before |-> buffer]

\* RealtimeData.new_loop_packet calls self.buffer.add_packet(event.packet);
\* a call that blocked on the lock has not returned, and no further packet
\* is taken
AddPacket ==
    /\ npackets < MaxPackets
    /\ call.outcome # "blocked"
    /\ \E packet \in BufPackets : add_packet_call(packet)
    /\ npackets' = npackets + 1
    /\ UNCHANGED <<timespan, fed>>

(***************************************************************************)
(* class CachedPacket                                                       *)
(***************************************************************************)
\* These fields must be available in every loop packet read from the cache.
OBS == {"cloudbase", "windDir", "windrun", "inHumidity", "outHumidity",
        "barometer", "radiation", "rain", "rainRate", "windSpeed",
        "appTemp", "dewpoint", "heatindex", "humidex", "inTemp",
        "outTemp", "windchill", "UV", "maxSolarRad"}

\* fields we ignore when caching a packet
IGNORE == {"dateTime", "usUnits"}

\* CachedPacket.update: the unit system the cache has after the call
CachedPacket_update_units(std, packet) ==
    IF std = None THEN packet["usUnits"] ELSE std

\* CachedPacket.update caching None observations as well
CachedPacket_update_cachesNone(c, std, packet, ts) ==
    LET _conv_packet == to_std_system(packet, CachedPacket_update_units(std, packet))
        seen == DOMAIN _conv_packet \ IGNORE
    IN  [obs \in DOMAIN c \cup seen |->
            IF obs \in seen THEN [value |-> _conv_packet[obs], ts |-> ts]
            ELSE c[obs]]

\* CachedPacket.update rebuilding the cache from the packet alone
CachedPacket_update_dropsAbsent(c, std, packet, ts) ==
    LET _conv_packet == to_std_system(packet, CachedPacket_update_units(std, packet))
        seen == {x \in DOMAIN _conv_packet \ IGNORE : _conv_packet[x] # None}
    IN  [obs \in seen |-> [value |-> _conv_packet[obs], ts |-> ts]]

\* CachedPacket.update: the cache after the call
CachedPacket_update(c, std, packet, ts) ==
    LET _conv_packet == to_std_system(packet, CachedPacket_update_units(std, packet))
        seen == {x \in DOMAIN _conv_packet \ IGNORE : _conv_packet[x] # None}
    IN  [obs \in DOMAIN c \cup seen |->
            IF obs \in seen THEN [value |-> _conv_packet[obs], ts |-> ts]
            ELSE c[obs]]

\* CachedPacket.__init__.  rec is None when present is FALSE.  With a record
\* the constructor calls self.update(rec, _ts) before the attribute
\* std_unit_system exists (it is assigned in the else branch only, and the
\* class has no such attribute), and update begins by reading it.
CachedPacket_init(present, rec) ==
    IF present
      THEN [err |-> "AttributeError", cache |-> EmptyDict,
            std_unit_system |-> None]
      ELSE [err |-> "none", cache |-> EmptyDict, std_unit_system |-> None]

\* CachedPacket.get_value with "<" for "<="
CachedPacket_get_value_strict(c, obs, ts, max_age) ==
    IF obs \in DOMAIN c /\ ts - c[obs].ts < max_age THEN c[obs].value
    ELSE None

CachedPacket_get_value(c, obs, ts, max_age) ==
    IF obs \in DOMAIN c /\ ts - c[obs].ts <= max_age THEN c[obs].value
    ELSE None

CachedPacket_get_packet(c, std, ts, max_age) ==
    [k \in {"dateTime", "usUnits"} \cup DOMAIN c |->
        IF k = "dateTime" THEN ts
        ELSE IF k = "usUnits" THEN std
        ELSE CachedPacket_get_value(c, k, ts, max_age)]

\* both threads at rest; RealtimeGaugeDataThread.__init__ sets buffer = None
ThrIdle ==
    /\ ipc = "idle"
    /\ itodo = <<>>
    /\ idirty = FALSE
    /\ wbuffer = FALSE
    /\ wpc = "idle"
    /\ wdata = <<>>
    /\ ngen = 0

\* a generator thread that was not started, its control queue empty
RunIdle ==
    /\ control_queue = <<>>
    /\ rpc = "done"
    /\ rpkg = "none"
    /\ nput = 0
    /\ sentinel = "no"
    /\ rafter = FALSE
    /\ rdropped = 0
    /\ rexit = "none"
    /\ rose = 0
    /\ rlast = "none"

\* a service without generators, no method of which was called
SvcIdle ==
    /\ generators = <<>>
    /\ svcOp = [op |-> "init", packet |-> EmptyDict, outcome |-> "returned",
                after_error |-> FALSE, done |-> <<>>]

\* no generator thread object, the clock at rest
WrkIdle ==
    /\ now = ClockStart
    /\ workers = <<>>
    /\ wrkOp = [i |-> 0, op |-> "none", at |-> ClockStart, last_write |-> 0,
                outcome |-> "none", hit |-> "none"]

\* the lone accumulator, when a specification does not use it
AccIdle ==
    /\ acc = ScalarBuffer_init(NoStats, US, FALSE)
    /\ accOp = [op |-> "init", val |-> None, ts |-> None, before |-> acc,
                result |-> None]
    /\ accLog = [vals |-> {}, n |-> 0, top |-> None, topvals |-> {}]
    /\ nops = 0

\* CachedPacket(): an empty cache without a unit system
CacheIdle ==
    /\ cache = EmptyDict
    /\ cache_std_unit_system = None
    /\ cacheOp = [op |-> "init", packet |-> EmptyDict, ts |-> None,
                  max_age |-> None, before |-> EmptyDict, err |-> "none"]
    /\ ncache = 0

CacheUpdate ==
    /\ ncache < MaxCacheOps
    /\ \E packet \in PacketsOver(CacheFields, CacheVals, CacheTimes, CacheUnits) :
         LET ts == packet["dateTime"] IN
         /\ cache' = CachedPacket_update(cache, cache_std_unit_system, packet, ts)
         /\ cache_std_unit_system' =
                CachedPacket_update_units(cache_std_unit_system, packet)
         /\ cacheOp' = [op |-> "update", packet |-> packet, ts |-> ts,
                        max_age |-> None, before |-> cache, err |-> "none"]
    /\ ncache' = ncache + 1

CacheGetPacket ==
    /\ ncache < MaxCacheOps
    /\ \E ts \in GetTimes, max_age \in GetAges :
         cacheOp' = [op |-> "get_packet",
                     packet |-> CachedPacket_get_packet(cache, cache_std_unit_system,
                                                        ts, max_age),
                     ts |-> ts, max_age |-> max_age, before |-> cache,
                     err |-> "none"]
    /\ ncache' = ncache + 1
    /\ UNCHANGED <<cache, cache_std_unit_system>>

\* packet_cache = CachedPacket(rec), with an archive record or with None.
\* When the constructor raises, packet_cache keeps the object it had.
CacheConstruct ==
    /\ ncache < MaxCacheOps
    /\ \E present \in BOOLEAN :
       \E rec \in IF present
                    THEN PacketsOver(CacheFields, CacheVals, CacheTimes, CacheUnits)
                    ELSE {EmptyDict} :
       \E obj \in {CachedPacket_init(present, rec)} :
         /\ cache' = IF obj.err = "none" THEN obj.cache ELSE cache
         /\ cache_std_unit_system' =
              IF obj.err = "none" THEN obj.std_unit_system
              ELSE cache_std_unit_system
         /\ cacheOp' = [op |-> IF present THEN "init_rec" ELSE "init",
                        packet |-> rec,
                        ts |-> IF present THEN rec["dateTime"] ELSE None,
                        max_age |-> None, before |-> cache, err |-> obj.err]
    /\ ncache' = ncache + 1

CacheInit == CacheIdle /\ AccIdle /\ BufIdle /\ ThrIdle /\ RunIdle /\ SvcIdle /\ WrkIdle

CacheNext ==
    \/ CacheUpdate /\ UNCHANGED <<accVars, bufVars, thrVars, runVars, svcVars, wrkVars>>
    \/ CacheGetPacket /\ UNCHANGED <<accVars, bufVars, thrVars, runVars, svcVars, wrkVars>>
    \/ CacheConstruct /\ UNCHANGED <<accVars, bufVars, thrVars, runVars, svcVars, wrkVars>>

SpecCache == CacheInit /\ [][CacheNext]_vars

(***************************************************************************)
(* An accumulator on its own: any sequence of add_value and day_reset calls *)
(***************************************************************************)
AccInit ==
    /\ CacheIdle
    /\ BufIdle
    /\ ThrIdle
    /\ RunIdle
    /\ SvcIdle /\ WrkIdle
    /\ acc \in {ScalarBuffer_init(NoStats, US, TRUE),
                ScalarBuffer_init(NoStats, US, FALSE),
                VectorBuffer_init(NoStats, US, TRUE),
                VectorBuffer_init(NoStats, US, FALSE)}
    /\ accOp = [op |-> "init", val |-> None, ts |-> None, before |-> acc,
                result |-> None]
    /\ accLog = [vals |-> {}, n |-> 0, top |-> None, topvals |-> {}]
    /\ nops = 0

\* the record of the samples after an accepted sample: the values and their
\* number since the accumulator was empty or reset, the greatest timestamp of
\* all accepted samples and the samples that came with it
Logged(log, v, val, ts) ==
    [vals |-> log.vals \cup {v}, n |-> log.n + 1,
     top |-> IF log.top = None \/ ts > log.top THEN ts ELSE log.top,
     topvals |-> IF log.top = None \/ ts > log.top THEN {val}
                 ELSE IF ts = log.top THEN log.topvals \cup {val}
                 ELSE log.topvals]

AccAddScalar ==
    /\ nops < MaxOps
    /\ acc.kind = "scalar"
    /\ \E val \in AccVals, ts \in AccTimes :
         /\ acc' = add_value(acc, val, ts)
         /\ accOp' = [op |-> "add_value", val |-> val, ts |-> ts, before |-> acc,
                      result |-> None]
         /\ accLog' = IF val = None THEN accLog
                       ELSE Logged(accLog, val, val, ts)
    /\ nops' = nops + 1

AccAddVector ==
    /\ nops < MaxOps
    /\ acc.kind = "vector"
    /\ \E mag \in AccVals, dir \in AccDirs, ts \in AccTimes :
         /\ acc' = add_value(acc, VectorTuple(mag, dir), ts)
         /\ accOp' = [op |-> "add_value", val |-> VectorTuple(mag, dir),
                      ts |-> ts, before |-> acc, result |-> None]
         /\ accLog' = IF mag = None THEN accLog
                       ELSE Logged(accLog, mag, VectorTuple(mag, dir), ts)
    /\ nops' = nops + 1

AccDayReset ==
    /\ nops < MaxOps
    /\ acc' = day_reset(acc)
    /\ accOp' = [op |-> "day_reset", val |-> None, ts |-> None, before |-> acc,
                  result |-> None]
    /\ accLog' = [accLog EXCEPT !.vals = {}, !.n = 0]
    /\ nops' = nops + 1

\* the property day_vec_avg is read
AccDayVecAvg ==
    /\ nops < MaxOps
    /\ acc.kind = "vector"
    /\ accOp' = [op |-> "day_vec_avg", val |-> None, ts |-> None, before |-> acc,
                  result |-> day_vec_avg(acc)]
    /\ nops' = nops + 1
    /\ UNCHANGED <<acc, accLog>>

\* history_max is called on an accumulator that keeps a history; val is the
\* age asked for
AccHistoryMax ==
    /\ nops < MaxOps
    /\ acc.use_history
    /\ \E ts \in AccTimes, age \in HistAges :
         accOp' = [op |-> "history_max", val |-> age, ts |-> ts, before |-> acc,
                   result |-> history_max(acc, ts, age)]
    /\ nops' = nops + 1
    /\ UNCHANGED <<acc, accLog>>

AccNext ==
    \/ AccAddScalar /\ UNCHANGED <<cacheVars, bufVars, thrVars, runVars, svcVars, wrkVars>>
    \/ AccAddVector /\ UNCHANGED <<cacheVars, bufVars, thrVars, runVars, svcVars, wrkVars>>
    \/ AccDayReset /\ UNCHANGED <<cacheVars, bufVars, thrVars, runVars, svcVars, wrkVars>>
    \/ AccDayVecAvg /\ UNCHANGED <<cacheVars, bufVars, thrVars, runVars, svcVars, wrkVars>>
    \/ AccHistoryMax /\ UNCHANGED <<cacheVars, bufVars, thrVars, runVars, svcVars, wrkVars>>

SpecAcc == AccInit /\ [][AccNext]_vars

(***************************************************************************)
(* A fresh Buffer fed with the loop packets of one day, and the day summary *)
(* that aggregates the same packets.                                        *)
(***************************************************************************)
\* the values of field obs in the packets q, with their timestamps, None
\* values left out
RECURSIVE SamplesOf(_, _)
SamplesOf(q, obs) ==
    IF q = <<>> THEN <<>>
    ELSE IF obs \in DOMAIN Head(q) /\ Head(q)[obs] # None
      THEN <<ObsTuple(Head(q)[obs], Head(q)["dateTime"])>>
             \o SamplesOf(Tail(q), obs)
      ELSE SamplesOf(Tail(q), obs)

\* the stats a day summary holds for samples smp: the extremes, with the
\* time each was first reached, the sum and the count
StatsOf(smp) ==
    LET n == Len(smp)
        lo == CHOOSE i \in 1..n :
                  /\ \A j \in 1..n : smp[i][1] <= smp[j][1]
                  /\ \A j \in 1..(i - 1) : smp[i][1] < smp[j][1]
        hi == CHOOSE i \in 1..n :
                  /\ \A j \in 1..n : smp[i][1] >= smp[j][1]
                  /\ \A j \in 1..(i - 1) : smp[i][1] > smp[j][1]
    IN  [present |-> TRUE,
         min |-> IF n = 0 THEN None ELSE smp[lo][1],
         mintime |-> IF n = 0 THEN None ELSE smp[lo][2],
         max |-> IF n = 0 THEN None ELSE smp[hi][1],
         maxtime |-> IF n = 0 THEN None ELSE smp[hi][2],
         sum |-> SumSeq([i \in 1..n |-> smp[i][1]]),
         count |-> n]

\* the day summary of the packets q: stats for every field the packets
\* carry and, where they carry windSpeed, for the vector 'wind'.  The
\* components and the time sum of 'wind' play no part in what is compared
\* and are left at 0, max_dir at None.
SummaryOf(q) ==
    LET fields == UNION {DOMAIN q[i] : i \in 1..Len(q)} \ {"dateTime", "usUnits"}
        types == fields \cup (IF "windSpeed" \in fields THEN {"wind"} ELSE {})
    IN  [unit_system |-> q[1]["usUnits"],
         stats |-> [o \in types |->
            IF o = "wind"
              THEN LET w == StatsOf(SamplesOf(q, "windSpeed"))
                   IN  [present |-> TRUE, min |-> w.min, mintime |-> w.mintime,
                        max |-> w.max, max_dir |-> None, maxtime |-> w.maxtime,
                        sum |-> w.sum, xsum |-> 0, ysum |-> 0, sumtime |-> 0,
                        count |-> w.count]
              ELSE StatsOf(SamplesOf(q, o))]]

FeedPackets == {MkPacket(f, ts, US) : f \in FeedShapes, ts \in FeedTimes}

\* Buffer(MANIFEST, TimeSpan(start_ts, end_ts)): an empty dict
FeedInit ==
    /\ buffer = EmptyDict
    /\ timespan = <<FeedDayStart, FeedDayStop>>
    /\ last_windSpeed_ts = None
    /\ std_unit_system = None
    /\ lock = "free"
    /\ call = [op |-> "init", packet |-> EmptyDict, outcome |-> "returned",
               crossed |-> FALSE, before |-> EmptyDict]
    /\ npackets = 0
    /\ fed = <<>>
    /\ ThrIdle /\ AccIdle /\ CacheIdle /\ RunIdle /\ SvcIdle /\ WrkIdle

\* add_packet(packet) on the Buffer; a call that blocked on the lock has not
\* returned, and no further packet is taken
FeedPacket ==
    /\ npackets < MaxFeed
    /\ call.outcome # "blocked"
    /\ \E packet \in FeedPackets :
         /\ add_packet_call(packet)
         /\ fed' = Append(fed, packet)
    /\ npackets' = npackets + 1
    /\ UNCHANGED timespan

FeedNext ==
    FeedPacket /\ UNCHANGED <<accVars, cacheVars, thrVars, runVars, svcVars, wrkVars>>

SpecFeed == FeedInit /\ [][FeedNext]_vars

(***************************************************************************)
(* The same Buffer fed by the loop packets of three stations, over a day    *)
(* boundary                                                                 *)
(***************************************************************************)
\* a packet with value v for every field of fields
StationShape(fields, v) == [f \in fields |-> v]

\* the loop packets of a station that reports every observation of the
\* manifest ('wind' and 'windrun' are derived by the Buffer), of one that
\* has no indoor sensor and no UV or radiation sensor, and of one that
\* reports wind only, with a speed or without
WindShapes ==
    {StationShape(ManifestSet \ {"wind", "windrun"}, 90),
     StationShape({"outTemp", "barometer", "outHumidity", "rain", "rainRate",
                   "humidex", "windchill", "heatindex", "windSpeed",
                   "windDir"}, 180),
     [windSpeed |-> 2, windDir |-> 90],
     [windSpeed |-> None, windDir |-> None]}

\* a loop packet of the station, at one of the times
WindPacket ==
    /\ npackets < MaxWindPackets
    /\ call.outcome # "blocked"
    /\ \E f \in WindShapes, ts \in WindTimes :
         add_packet_call(MkPacket(f, ts, US))
    /\ npackets' = npackets + 1
    /\ UNCHANGED <<timespan, fed>>

WindNext ==
    WindPacket /\ UNCHANGED <<accVars, cacheVars, thrVars, runVars, svcVars, wrkVars>>

SpecWind == FeedInit /\ [][WindNext]_vars

(***************************************************************************)
(* The threads.  The ingesting thread runs Buffer.add_packet a lock-held    *)
(* step at a time; a RealtimeGaugeDataThread runs calculate and             *)
(* get_field_value, which read the Buffer a few fields at a time.           *)
(***************************************************************************)
\* the Buffer as the state the steps of add_packet work on, with the lock
\* just taken by the caller
Held ==
    [buffer |-> buffer, last_windSpeed_ts |-> last_windSpeed_ts,
     std_unit_system |-> std_unit_system, lock |-> "free",
     outcome |-> "running"]

\* where add_packet goes once the reset is behind it
AfterReset(std, packet) ==
    IF std = None THEN "unit_acq"
    ELSE IF ObsOf(to_std_system(packet, std), 1) = <<>> THEN "idle"
    ELSE "obs_acq"

\* add_packet is entered with a packet (line 607)
IBegin ==
    /\ ipc = "idle"
    /\ npackets < MaxLockPackets
    /\ \E packet \in LockPackets :
         LET crossed == ~includesArchiveTime(timespan, packet["dateTime"])
             to == IF crossed THEN "reset_acq"
                   ELSE AfterReset(std_unit_system, packet)
         IN  /\ ipc' = to
             /\ itodo' = IF std_unit_system = None THEN <<>>
                         ELSE ObsOf(to_std_system(packet, std_unit_system), 1)
             /\ call' = [op |-> "add_packet", packet |-> packet,
                         outcome |-> IF to = "idle" THEN "returned"
                                     ELSE "running",
                         crossed |-> crossed, before |-> buffer]
    /\ idirty' = FALSE
    /\ npackets' = npackets + 1
    /\ UNCHANGED <<buffer, timespan, last_windSpeed_ts, std_unit_system, lock,
                   fed, wbuffer, wpc, wdata, ngen>>

\* self.lock.acquire() (lines 609, 613, 619): waits until the lock is free
IAcquire ==
    /\ ipc \in {"reset_acq", "unit_acq", "obs_acq"}
    /\ lock = "free"
    /\ lock' = "ingest"
    /\ ipc' = IF ipc = "reset_acq" THEN "reset"
              ELSE IF ipc = "unit_acq" THEN "unit" ELSE "obs"
    /\ UNCHANGED <<buffer, timespan, last_windSpeed_ts, std_unit_system, call,
                   npackets, fed, itodo, idirty, wbuffer, wpc, wdata, ngen>>

\* self.start_of_day_reset(); self.lock.release() (lines 610-611)
IReset ==
    /\ ipc = "reset"
    /\ \E st \in {ResetStep(Held, "ingest")},
          to \in {AfterReset(std_unit_system, call.packet)} :
           /\ buffer' = st.buffer
           /\ lock' = st.lock
           /\ IF st.outcome = "running"
                THEN /\ ipc' = to
                     /\ call' = [call EXCEPT !.outcome =
                                   IF to = "idle" THEN "returned" ELSE @]
                ELSE /\ ipc' = "idle"
                     /\ call' = [call EXCEPT !.outcome = st.outcome]
    /\ idirty' = TRUE
    /\ UNCHANGED <<timespan, last_windSpeed_ts, std_unit_system, npackets,
                   fed, itodo, wbuffer, wpc, wdata, ngen>>

\* self.std_unit_system = packet['usUnits']; self.lock.release() (614-615)
IUnit ==
    /\ ipc = "unit"
    /\ \E st \in {UnitStep(Held, call.packet)} :
         \E todo \in {ObsOf(to_std_system(call.packet, st.std_unit_system), 1)} :
           /\ std_unit_system' = st.std_unit_system
           /\ lock' = st.lock
           /\ itodo' = todo
           /\ ipc' = IF todo = <<>> THEN "idle" ELSE "obs_acq"
           /\ call' = [call EXCEPT !.outcome =
                         IF todo = <<>> THEN "returned" ELSE @]
    /\ UNCHANGED <<buffer, timespan, last_windSpeed_ts, npackets, fed, idirty,
                   wbuffer, wpc, wdata, ngen>>

\* add_func(self, _conv_packet, obs); self.lock.release() (lines 620-621)
IObs ==
    /\ ipc = "obs"
    /\ \E st \in {ObsStep(Held, to_std_system(call.packet, std_unit_system),
                           Head(itodo), "ingest")} :
           /\ buffer' = st.buffer
           /\ last_windSpeed_ts' = st.last_windSpeed_ts
           /\ lock' = st.lock
           /\ IF st.outcome = "running"
                THEN /\ itodo' = Tail(itodo)
                     /\ ipc' = IF Tail(itodo) = <<>> THEN "idle" ELSE "obs_acq"
                     /\ call' = [call EXCEPT !.outcome =
                                   IF Tail(itodo) = <<>> THEN "returned" ELSE @]
                ELSE /\ itodo' = <<>>
                     /\ ipc' = "idle"
                     /\ call' = [call EXCEPT !.outcome = st.outcome]
    /\ idirty' = TRUE
    /\ UNCHANGED <<timespan, std_unit_system, npackets, fed, wbuffer, wpc,
                   wdata, ngen>>

\* run() gets a 'stats' package and process_stats sets its items as
\* attributes of the thread: the only assignment that can make self.buffer
\* the Buffer
WStats ==
    /\ wpc = "idle"
    /\ ~wbuffer
    /\ wbuffer' = TRUE
    /\ UNCHANGED <<bufVars, ipc, itodo, idirty, wpc, wdata, ngen>>

\* run() gets a 'loop' package and process_packet calls calculate; with
\* self.buffer None the first read raises TypeError, which process_packet
\* catches
WProcessPacket ==
    /\ wpc = "idle"
    /\ ngen < MaxGenerations
    /\ ngen' = ngen + 1
    /\ wpc' = IF wbuffer THEN "wind" ELSE "idle"
    /\ wdata' = <<>>
    /\ UNCHANGED <<bufVars, ipc, itodo, idirty, wbuffer>>

\* calculate reads self.buffer['wind'] (gaugedata.py lines 1409, 1457);
\* KeyError when there is no such accumulator, caught by process_packet
WReadWind ==
    /\ wpc = "wind"
    /\ IF "wind" \in DOMAIN buffer
         THEN /\ wpc' = "speed"
              /\ wdata' = Append(wdata, <<buffer["wind"].xsum,
                                          buffer["wind"].ysum,
                                          buffer["wind"].sumtime>>)
         ELSE /\ wpc' = "idle"
              /\ wdata' = wdata
    /\ UNCHANGED <<bufVars, ipc, itodo, idirty, wbuffer, ngen>>

\* calculate reads self.buffer['windSpeed'] (gaugedata.py lines 1481-1498)
WReadWindSpeed ==
    /\ wpc = "speed"
    /\ IF "windSpeed" \in DOMAIN buffer
         THEN wpc' = "fields"
         ELSE wpc' = "idle"
    /\ wdata' = wdata
    /\ UNCHANGED <<bufVars, ipc, itodo, idirty, wbuffer, ngen>>

\* get_field_value reads the aggregates of a field map source
\* (gaugedata.py lines 1339, 1349), here max and maxtime of outTemp
WReadFields ==
    /\ wpc = "fields"
    /\ wpc' = "idle"
    /\ wdata' = IF "outTemp" \in DOMAIN buffer
                  THEN Append(wdata, <<buffer["outTemp"].max,
                                       buffer["outTemp"].maxtime>>)
                  ELSE wdata
    /\ UNCHANGED <<bufVars, ipc, itodo, idirty, wbuffer, ngen>>

LockInit ==
    BufInit /\ ThrIdle /\ AccIdle /\ CacheIdle /\ RunIdle /\ SvcIdle /\ WrkIdle

LockNext ==
    \/ IBegin /\ UNCHANGED <<accVars, cacheVars, runVars, svcVars, wrkVars>>
    \/ IAcquire /\ UNCHANGED <<accVars, cacheVars, runVars, svcVars, wrkVars>>
    \/ IReset /\ UNCHANGED <<accVars, cacheVars, runVars, svcVars, wrkVars>>
    \/ IUnit /\ UNCHANGED <<accVars, cacheVars, runVars, svcVars, wrkVars>>
    \/ IObs /\ UNCHANGED <<accVars, cacheVars, runVars, svcVars, wrkVars>>
    \/ WStats /\ UNCHANGED <<accVars, cacheVars, runVars, svcVars, wrkVars>>
    \/ WProcessPacket /\ UNCHANGED <<accVars, cacheVars, runVars, svcVars, wrkVars>>
    \/ WReadWind /\ UNCHANGED <<accVars, cacheVars, runVars, svcVars, wrkVars>>
    \/ WReadWindSpeed /\ UNCHANGED <<accVars, cacheVars, runVars, svcVars, wrkVars>>
    \/ WReadFields /\ UNCHANGED <<accVars, cacheVars, runVars, svcVars, wrkVars>>

SpecLock == LockInit /\ [][LockNext]_vars

(***************************************************************************)
(* RealtimeGaugeDataThread.run and its control queue.  The thread that owns *)
(* the service puts packages on the queue (queue.Queue(), which has no      *)
(* size limit, so put never blocks) and at last the shutdown signal None,   *)
(* written "None" here.                                                     *)
(***************************************************************************)
\* thread['control_queue'].put(_package)
PutPackage ==
    /\ nput < MaxPuts
    /\ sentinel = "no"
    /\ \E type \in PackageTypes : control_queue' = Append(control_queue, type)
    /\ nput' = nput + 1
    /\ rafter' = FALSE
    /\ UNCHANGED <<rpc, rpkg, sentinel, rdropped, rexit, rose, rlast>>

\* generator['control_queue'].put(None) for a thread that is alive
PutSentinel ==
    /\ sentinel = "no"
    /\ rpc # "done"
    /\ control_queue' = Append(control_queue, "None")
    /\ sentinel' = "queued"
    /\ rafter' = FALSE
    /\ UNCHANGED <<rpc, rpkg, nput, rdropped, rexit, rose, rlast>>

\* self.control_queue.get(True, 1.0): the oldest package, or queue.Empty
\* when the queue stayed empty; None makes run return
RGet ==
    /\ rpc = "get"
    /\ IF control_queue = <<>>
         THEN /\ rpc' = "trim"
              /\ UNCHANGED <<control_queue, rpkg, sentinel, rexit>>
         ELSE /\ control_queue' = Tail(control_queue)
              /\ IF Head(control_queue) = "None"
                   THEN /\ rpc' = "done"
                        /\ rexit' = "sentinel"
                        /\ sentinel' = "taken"
                        /\ rpkg' = rpkg
                   ELSE /\ rpc' = "handle"
                        /\ rpkg' = Head(control_queue)
                        /\ UNCHANGED <<sentinel, rexit>>
    /\ rafter' = FALSE
    /\ UNCHANGED <<nput, rdropped, rose, rlast>>

\* the branches of run for a package: every package gives rise to a
\* windrose query
handle_package_roseAlways(self_rose, type) == self_rose + 1

\* the branches of run for a package, as far as self.rose goes: an
\* 'archive' package is followed by self.rose = calc_windrose(...) (lines
\* 1157-1171); a 'stats' package goes to process_stats and a 'loop' package
\* to process_packet, where calculate reads self.rose (line 1461) and
\* nothing assigns it
handle_package(self_rose, type) ==
    IF type = "archive" THEN self_rose + 1 ELSE self_rose

\* the package is handled and run goes on with "continue", which starts the
\* inner loop again without reaching the trimming below it
RHandle ==
    /\ rpc = "handle"
    /\ rpc' = "get"
    /\ rpkg' = "none"
    /\ rafter' = TRUE
    /\ rose' = handle_package(rose, rpkg)
    /\ rlast' = rpkg
    /\ UNCHANGED <<control_queue, nput, sentinel, rdropped, rexit>>

\* handling a loop or archive package raises: run logs it and returns
RHandleRaises ==
    /\ rpc = "handle"
    /\ rpkg \in {"loop", "archive"}
    /\ rpc' = "done"
    /\ rpkg' = "none"
    /\ rexit' = "exception"
    /\ rafter' = FALSE
    /\ UNCHANGED <<control_queue, nput, sentinel, rdropped, rose, rlast>>

\* while self.control_queue.qsize() > 5 with every package in the queue
\* counted as too many
over_backlog_any(q) == Len(q) > 0

\* while self.control_queue.qsize() > 5
over_backlog(q) == Len(q) > 5

\* one turn of the trimming loop: self.control_queue.get() discards the
\* oldest package, or the loop ends and the inner loop starts again
RTrim ==
    /\ rpc = "trim"
    /\ IF over_backlog(control_queue)
         THEN /\ control_queue' = Tail(control_queue)
              /\ rdropped' = rdropped + 1
              /\ sentinel' = IF Head(control_queue) = "None" THEN "dropped"
                              ELSE sentinel
              /\ rpc' = rpc
         ELSE /\ rpc' = "get"
              /\ UNCHANGED <<control_queue, rdropped, sentinel>>
    /\ rafter' = FALSE
    /\ UNCHANGED <<rpkg, nput, rexit, rose, rlast>>

\* the thread was started and run has reached its loop: it has made its
\* first windrose query (gaugedata.py lines 1099-1104)
RunInit ==
    /\ control_queue = <<>>
    /\ rpc = "get"
    /\ rpkg = "none"
    /\ nput = 0
    /\ sentinel = "no"
    /\ rafter = FALSE
    /\ rdropped = 0
    /\ rexit = "none"
    /\ rose = 1
    /\ rlast = "none"
    /\ BufIdle /\ ThrIdle /\ AccIdle /\ CacheIdle /\ SvcIdle /\ WrkIdle

RunThread ==
    \/ RGet /\ UNCHANGED <<accVars, cacheVars, bufVars, thrVars, svcVars, wrkVars>>
    \/ RHandle /\ UNCHANGED <<accVars, cacheVars, bufVars, thrVars, svcVars, wrkVars>>
    \/ RHandleRaises /\ UNCHANGED <<accVars, cacheVars, bufVars, thrVars, svcVars, wrkVars>>
    \/ RTrim /\ UNCHANGED <<accVars, cacheVars, bufVars, thrVars, svcVars, wrkVars>>

RunNext ==
    \/ PutPackage /\ UNCHANGED <<accVars, cacheVars, bufVars, thrVars, svcVars, wrkVars>>
    \/ PutSentinel /\ UNCHANGED <<accVars, cacheVars, bufVars, thrVars, svcVars, wrkVars>>
    \/ RunThread

SpecRun == RunInit /\ [][RunNext]_vars

\* the thread is scheduled again and again
SpecRunFair == SpecRun /\ WF_vars(RunThread)

(***************************************************************************)
(* The service RealtimeData with its generators: new_loop_packet and        *)
(* shutDown, called by the thread that runs the WeeWX engine.  An exception *)
(* leaves the method for the engine; the model lets the engine go on        *)
(* delivering loop packets after it.                                        *)
(***************************************************************************)
ServicePackets ==
    {MkPacket(f, ts, US) : f \in ServiceShapes, ts \in ServiceTimes}

\* the entry generator_factory appends to self.generators: is the thread
\* alive, its control queue, and the max_cache_age its constructor read from
\* the configuration
Generator(max_cache_age) ==
    [alive |-> TRUE, control_queue |-> <<>>, max_cache_age |-> max_cache_age]

\* RealtimeData.__init__ with n generators.  Without generators it returns
\* before the Buffer is seeded and before new_loop_packet is bound.
ServiceInit ==
    /\ BufInit
    /\ \E n \in 0..MaxThreads, age \in MaxCacheAges :
         /\ generators = [i \in 1..n |-> Generator(age)]
         /\ n = 0 => DOMAIN buffer = {"fred"}
    /\ svcOp = [op |-> "init", packet |-> EmptyDict, outcome |-> "returned",
                after_error |-> FALSE, done |-> <<>>]
    /\ CacheIdle /\ AccIdle /\ ThrIdle /\ RunIdle /\ WrkIdle

\* has a call of new_loop_packet before the one to come raised?
AfterError ==
    svcOp.after_error \/ (svcOp.op = "new_loop_packet" /\ svcOp.outcome # "returned")

\* for thread in self.generators: thread['control_queue'].put(_package)
put_all(gens, _package) ==
    [i \in DOMAIN gens |-> [gens[i] EXCEPT !.control_queue = Append(@, _package)]]

\* the body of RealtimeData.new_loop_packet for event.packet = packet.  When
\* add_packet raises, or blocks on the lock, nothing after it is done.
new_loop_packet_call(packet) ==
    /\ add_packet_call(packet)
    /\ svcOp' = [op |-> "new_loop_packet", packet |-> packet,
                 outcome |-> call'.outcome, after_error |-> AfterError,
                 done |-> IF call'.outcome = "returned"
                            THEN Append(svcOp.done, packet) ELSE svcOp.done]
    /\ IF call'.outcome = "returned"
         THEN \E std \in {IF cache_std_unit_system = None
                             THEN std_unit_system'
                             ELSE cache_std_unit_system} :
              \E c \in {CachedPacket_update(cache, std, packet,
                                            packet["dateTime"])} :
              \E _package \in {[type |-> "loop",
                                 payload |-> CachedPacket_get_packet(
                                     c, std, packet["dateTime"], 600)]} :
                /\ cache_std_unit_system' = std
                /\ cache' = c
                /\ generators' = put_all(generators, _package)
         ELSE UNCHANGED <<cache, cache_std_unit_system, generators>>

\* RealtimeData.new_loop_packet, bound when there are generators
NewLoopPacket ==
    /\ generators # <<>>
    /\ svcOp.op # "shutDown"
    /\ svcOp.outcome # "blocked"
    /\ npackets < MaxServicePackets
    /\ \E packet \in ServicePackets : new_loop_packet_call(packet)
    /\ npackets' = npackets + 1
    /\ UNCHANGED <<timespan, fed, cacheOp, ncache>>

\* RealtimeData.shutDown.  The entries of self.generators have the keys
\* 'object', 'control_queue' and 'result_queue': generator['thread'] raises
\* KeyError for the first generator, before anything is put on a queue.
ShutDown ==
    /\ svcOp.op # "shutDown"
    /\ svcOp.outcome # "blocked"
    /\ svcOp' = [op |-> "shutDown", packet |-> EmptyDict,
                 outcome |-> IF generators = <<>> THEN "returned"
                             ELSE "KeyError",
                 after_error |-> AfterError, done |-> svcOp.done]
    /\ UNCHANGED <<generators, bufVars, cacheVars>>

\* run of a generator thread returns after an exception
ThreadExits ==
    /\ svcOp.op # "shutDown"
    /\ \E i \in DOMAIN generators :
         /\ generators[i].alive
         /\ generators' = [generators EXCEPT ![i].alive = FALSE]
    /\ UNCHANGED <<svcOp, bufVars, cacheVars>>

ServiceNext ==
    \/ NewLoopPacket /\ UNCHANGED <<accVars, thrVars, runVars, wrkVars>>
    \/ ShutDown /\ UNCHANGED <<accVars, thrVars, runVars, wrkVars>>
    \/ ThreadExits /\ UNCHANGED <<accVars, thrVars, runVars, wrkVars>>

SpecService == ServiceInit /\ [][ServiceNext]_vars

(***************************************************************************)
(* The generator threads at work: RealtimeGaugeDataThread.run taking loop   *)
(* packages from its control queue and process_packet generating, while the *)
(* service dispatches loop packets and the clock advances.  What calculate, *)
(* write_data and the exporter do with the data is left out; where they can *)
(* raise is kept.                                                           *)
(***************************************************************************)
\* where processing one package can fail: calculate or write_data raise
\* (both caught in process_packet); the export sink fails with one of the
\* exceptions the exporter catches itself (URLError, socket.error, IOError:
\* "sink"); the exporter raises another exception ("export": KeyError at
\* data['dateTime'] in RsyncExport.export, TypeError at response.code() in
\* HttpPostExport.post_data)
Faults == {"none", "calculate", "write_data", "sink", "export"}

\* RealtimeGaugeDataThread.__init__: the attributes process_packet uses
Worker(min_interval, exporter, debug) ==
    [min_interval |-> min_interval, exporter |-> exporter, debug |-> debug,
     last_write |-> 0, lost_contact_flag |-> FALSE]

\* the test at the head of process_packet: generate if there is no minimum
\* interval or if last_write + min_interval < time.time()
due(self, clock) ==
    self.min_interval = None \/ self.last_write + self.min_interval < clock

\* process_packet setting last_write when it starts to generate instead of
\* after the write
process_packet_writeTimeFirst(self, clock, fault) ==
    IF ~due(self, clock)
      THEN [self |-> self, outcome |-> "skipped", hit |-> "none",
            raised |-> FALSE]
    ELSE
      LET s2 == [self EXCEPT !.lost_contact_flag = FALSE,
                             !.last_write = clock]
      IN  IF fault \in {"calculate", "write_data"}
            THEN [self |-> s2, outcome |-> "dropped", hit |-> fault,
                  raised |-> FALSE]
          ELSE IF self.exporter /\ fault = "export"
            THEN [self |-> s2, outcome |-> "generated", hit |-> "export",
                  raised |-> TRUE]
          ELSE IF self.debug = 2
            THEN [self |-> s2, outcome |-> "generated", hit |-> "log",
                  raised |-> TRUE]
          ELSE [self |-> s2, outcome |-> "generated",
                hit |-> IF self.exporter /\ fault = "sink" THEN "sink"
                        ELSE "none",
                raised |-> FALSE]

\* RealtimeGaugeDataThread.process_packet at the clock reading clock, with
\* the failure fault met if the step it belongs to is reached.  The result
\* is the object after the call, what was done with the packet ("skipped",
\* "generated", "dropped"), the step that failed (hit) and whether an
\* exception leaves process_packet (raised).  get_lost_contact gives False
\* for a station that is not in LOOP_STATIONS.  After a write, with
\* weewx.debug == 2, the log call evaluates cached_packet['dateTime'], a name
\* that does not exist in process_packet: NameError ("log").
process_packet(self, clock, fault) ==
    IF ~due(self, clock)
      THEN [self |-> self, outcome |-> "skipped", hit |-> "none",
            raised |-> FALSE]
    ELSE
      LET s1 == [self EXCEPT !.lost_contact_flag = FALSE]
          s2 == [s1 EXCEPT !.last_write = clock]
      IN  IF fault \in {"calculate", "write_data"}
            THEN [self |-> s1, outcome |-> "dropped", hit |-> fault,
                  raised |-> FALSE]
          ELSE IF self.exporter /\ fault = "export"
            THEN [self |-> s2, outcome |-> "generated", hit |-> "export",
                  raised |-> TRUE]
          ELSE IF self.debug = 2
            THEN [self |-> s2, outcome |-> "generated", hit |-> "log",
                  raised |-> TRUE]
          ELSE [self |-> s2, outcome |-> "generated",
                hit |-> IF self.exporter /\ fault = "sink" THEN "sink"
                        ELSE "none",
                raised |-> FALSE]

\* the except clause of run around process_packet: the thread returns, and
\* so does every other generator thread
exit_all(gens, i) == [j \in DOMAIN gens |-> [gens[j] EXCEPT !.alive = FALSE]]

\* the except clause of run around process_packet: log and return
exit_thread(gens, i) == [gens EXCEPT ![i].alive = FALSE]

\* the loop packets that can come after n loop packets: one every LoopPeriod
\* seconds
WorkerPackets(n) ==
    {MkPacket(f, LoopPeriod * (n + 1), US) : f \in WorkerShapes}

\* the service with its generators started, all built from the one
\* [RealtimeGaugeData] section of the configuration, over an empty database
WorkerInit ==
    /\ BufInit
    /\ DOMAIN buffer = {"fred"}
    /\ generators = [i \in 1..NWorkers |-> Generator(600)]
    /\ svcOp = [op |-> "init", packet |-> EmptyDict, outcome |-> "returned",
                after_error |-> FALSE, done |-> <<>>]
    /\ now = ClockStart
    /\ \E mi \in MinIntervals, exporter \in BOOLEAN, debug \in DebugLevels :
         workers = [i \in 1..NWorkers |-> Worker(mi, exporter, debug)]
    /\ wrkOp = [i |-> 0, op |-> "none", at |-> ClockStart, last_write |-> 0,
                outcome |-> "none", hit |-> "none"]
    /\ CacheIdle /\ AccIdle /\ ThrIdle /\ RunIdle

\* time passes
Tick ==
    /\ now < MaxClock
    /\ now' = now + 1
    /\ UNCHANGED <<workers, wrkOp, svcVars, bufVars, cacheVars>>

\* the engine delivers a loop packet to RealtimeData.new_loop_packet
WDispatch ==
    /\ svcOp.outcome # "blocked"
    /\ npackets < MaxWorkerPackets
    /\ \E packet \in WorkerPackets(npackets) : new_loop_packet_call(packet)
    /\ npackets' = npackets + 1
    /\ UNCHANGED <<timespan, fed, cacheOp, ncache, wrkVars>>

\* run of generator i takes a 'loop' package from its control queue and
\* calls process_packet; an exception that leaves process_packet makes run
\* return
WProcess(i) ==
    /\ generators[i].alive
    /\ generators[i].control_queue # <<>>
    /\ \E fault \in Faults :
       \E r \in {process_packet(workers[i], now, fault)} :
         /\ workers' = [workers EXCEPT ![i] = r.self]
         /\ generators' =
              IF r.raised
                THEN exit_thread([generators EXCEPT ![i].control_queue = Tail(@)], i)
                ELSE [generators EXCEPT ![i].control_queue = Tail(@)]
         /\ wrkOp' = [i |-> i, op |-> "process_packet",
                      at |-> now, last_write |-> workers[i].last_write,
                      outcome |-> r.outcome, hit |-> r.hit]
    /\ UNCHANGED <<now, svcOp, bufVars, cacheVars>>

WorkerNext ==
    \/ Tick /\ UNCHANGED <<accVars, thrVars, runVars>>
    \/ WDispatch /\ UNCHANGED <<accVars, thrVars, runVars>>
    \/ \E i \in DOMAIN generators :
         WProcess(i) /\ UNCHANGED <<accVars, thrVars, runVars>>

SpecWorker == WorkerInit /\ [][WorkerNext]_vars

(***************************************************************************)
(* The Buffer of the service, fed by loop packets one at a time             *)
(***************************************************************************)
Init == BufInit /\ ThrIdle /\ AccIdle /\ CacheIdle /\ RunIdle /\ SvcIdle /\ WrkIdle

Next ==
    AddPacket /\ UNCHANGED <<accVars, cacheVars, thrVars, runVars, svcVars, wrkVars>>

Spec == Init /\ [][Next]_vars

(***************************************************************************)
(* Properties                                                               *)
(***************************************************************************)

\* did the last call feed a packet of another day than the buffer's timespan?
Crossing == call.op = "add_packet" /\ call.crossed

\* the value of a packet field in the units of its accumulator
Stored(obs) ==
    convertStd(obs, call.packet[obs], call.packet["usUnits"], buffer[obs].units)

\* C1: when add_packet has returned from a packet whose timestamp lay outside
\* the buffer's timespan, the timespan contains that timestamp (so that the
\* next packet of the same day causes no further reset).
C1_SpanAdvancedOnReturn ==
    (Crossing /\ call.outcome = "returned") =>
        includesArchiveTime(timespan, call.packet["dateTime"])

\* C2: after add_packet of a boundary-crossing packet, every manifest
\* observation with a non-null value in the packet has count 1 and min, max
\* and sum equal to that value: the reset came first and nothing of the
\* previous day is left.
C2_ResetBeforeValues ==
    Crossing =>
      \A obs \in (DOMAIN call.packet \cap ManifestSet) :
        call.packet[obs] # None =>
          /\ obs \in DOMAIN buffer
          /\ buffer[obs].count = 1
          /\ buffer[obs].min = Stored(obs)
          /\ buffer[obs].max = Stored(obs)
          /\ buffer[obs].sum = Stored(obs)

\* C3: a day-boundary reset succeeds when only some manifest observations
\* have accumulators: a boundary-crossing add_packet that finds the lock
\* free raises no KeyError, and every accumulator that existed holds at most
\* the sample of the crossing packet afterwards.
C3_ResetWithLazyAccumulators ==
    (Crossing /\ call.outcome # "blocked") =>
      /\ call.outcome # "KeyError"
      /\ \A obs \in (DOMAIN call.before \cap ManifestSet) :
            buffer[obs].count <= 1

\* C4: add_packet holds the buffer lock for the whole of its
\* read-modify-write: from its first change to an accumulator until it returns
\* the lock is held by the ingesting thread, so that no other thread can take
\* the lock and see the reset without the packet's values, or some of the
\* packet's observations without the others.
C4_LockHeldForWholePacket ==
    (ipc # "idle" /\ idirty) => lock = "ingest"

\* C5: the generator thread reads the Buffer (calculate, get_field_value)
\* only while it holds the buffer lock.
C5_WorkerReadsUnderLock ==
    wpc \in {"wind", "speed", "fields"} => lock = "worker"

C7_FreshOrNull ==
    cacheOp.op = "get_packet" =>
      \A obs \in DOMAIN cacheOp.before :
        /\ obs \in DOMAIN cacheOp.packet
        /\ cacheOp.ts - cacheOp.before[obs].ts <= cacheOp.max_age =>
              cacheOp.packet[obs] = cacheOp.before[obs].value
        /\ cacheOp.ts - cacheOp.before[obs].ts > cacheOp.max_age =>
              cacheOp.packet[obs] = None

\* a get_packet that found one entry exactly max_age old and one older
C7_Witness ==
    /\ cacheOp.op = "get_packet"
    /\ \E obs \in DOMAIN cacheOp.before :
         /\ cacheOp.ts - cacheOp.before[obs].ts = cacheOp.max_age
         /\ cacheOp.packet[obs] = cacheOp.before[obs].value
    /\ \E obs \in DOMAIN cacheOp.before :
         /\ cacheOp.ts - cacheOp.before[obs].ts > cacheOp.max_age
         /\ cacheOp.packet[obs] = None

\* C8: every packet get_packet returns holds dateTime, usUnits and exactly
\* the fields of CachedPacket.OBS.
C8_PacketHasExactlyOBS ==
    cacheOp.op = "get_packet" =>
      DOMAIN cacheOp.packet = OBS \cup {"dateTime", "usUnits"}

\* C9: CachedPacket.update leaves the value and timestamp of every field that
\* is absent from the packet unchanged; a field cached as 12.3 (123 here) at
\* t=100 and absent from the packet of t=200 reads as 12.3 with
\* get_packet(250, 600) and as None with get_packet(250, 50).
C9_AbsentFieldsUnchanged ==
    cacheOp.op = "update" =>
      \A obs \in DOMAIN cacheOp.before \ DOMAIN cacheOp.packet :
        /\ obs \in DOMAIN cache
        /\ cache[obs] = cacheOp.before[obs]
        /\ (cacheOp.before[obs] = [value |-> 123, ts |-> 100] /\ cacheOp.ts = 200) =>
              /\ CachedPacket_get_packet(cache, cache_std_unit_system, 250, 600)[obs] = 123
              /\ CachedPacket_get_packet(cache, cache_std_unit_system, 250, 50)[obs] = None

\* the scenario: 123 cached at t=100, then a packet of t=200 without the field
C9_Witness ==
    /\ cacheOp.op = "update"
    /\ cacheOp.ts = 200
    /\ \E obs \in DOMAIN cacheOp.before \ DOMAIN cacheOp.packet :
         cacheOp.before[obs] = [value |-> 123, ts |-> 100]
    /\ DOMAIN cacheOp.packet \ IGNORE # {}

\* is the sample of the last add_value call a null sample?
NullSample ==
    /\ accOp.op = "add_value"
    /\ IF acc.kind = "vector" THEN accOp.val[1] = None ELSE accOp.val = None

\* C10: add_value with a null sample (val None for a scalar, magnitude None
\* for a vector) leaves every field of the accumulator as it was.
C10_NullSampleIsNoOp == NullSample => acc = accOp.before

\* a null sample (with a direction, for a vector) given to an accumulator
\* that holds samples and a history
C10_Witness ==
    /\ NullSample
    /\ acc.count > 0
    /\ Len(acc.history) > 0
    /\ acc.kind = "vector" => accOp.val[2] # None

\* C11: for an accumulator that started empty or was just reset for a new
\* day, after any sequence of add_value calls every non-null value v added
\* satisfies min <= v <= max, min and max are each one of those values, and
\* count is the number of calls made with a non-null value.
C11_ExtremaAndCount ==
    /\ acc.count = accLog.n
    /\ \A v \in accLog.vals : acc.min <= v /\ v <= acc.max
    /\ accLog.vals # {} => (acc.min \in accLog.vals /\ acc.max \in accLog.vals)

\* three different values have been added, the last neither min nor max
C11_Witness ==
    /\ accOp.op = "add_value"
    /\ accLog.n = 3
    /\ Cardinality(accLog.vals) = 3
    /\ acc.min < acc.last /\ acc.last < acc.max

\* C12: day_reset returns min, max, their timestamps, sum and count to the
\* empty initial state and leaves history as it was, so that a history query
\* made right after the reset finds what it found before.
C12_DayResetKeepsHistory ==
    accOp.op = "day_reset" =>
      /\ acc.min = None /\ acc.mintime = None
      /\ acc.max = None /\ acc.maxtime = None
      /\ acc.sum = 0 /\ acc.count = 0
      /\ acc.history = accOp.before.history
      /\ \A ts \in AccTimes :
            history_max(acc, ts, MAX_AGE) = history_max(accOp.before, ts, MAX_AGE)

\* a day_reset of an accumulator that held samples and a history which a
\* query still sees
C12_Witness ==
    /\ accOp.op = "day_reset"
    /\ accOp.before.count > 0
    /\ Len(acc.history) > 0
    /\ \E ts \in AccTimes : ~history_max(acc, ts, MAX_AGE).none

\* C13: on an accumulator that keeps a history, right after add_value(v, t)
\* with a non-null v no entry of history has a timestamp <= t - MAX_AGE and
\* the entry (v, t) is in history, whatever the order of the timestamps.
C13_HistoryPruned ==
    (accOp.op = "add_value" /\ acc.use_history /\ ~NullSample) =>
      /\ \A i \in 1..Len(acc.history) : acc.history[i][2] > accOp.ts - MAX_AGE
      /\ \E i \in 1..Len(acc.history) :
            acc.history[i] = ObsTuple(accOp.val, accOp.ts)

\* C14: day_vec_avg never raises, and when sumtime is 0 it returns the
\* vector (0.0, 0.0) whatever xsum and ysum are.
C14_DayVecAvgNeverRaises ==
    accOp.op = "day_vec_avg" =>
      /\ accOp.result.err = "none"
      /\ accOp.before.sumtime = 0 => accOp.result.zero

\* day_vec_avg read when sumtime is 0 and xsum or ysum is not
C14_Witness ==
    /\ accOp.op = "day_vec_avg"
    /\ acc.sumtime = 0
    /\ acc.count > 0
    /\ (acc.xsum # 0 \/ acc.ysum # 0)

\* the Buffer seeded from the day summary of the packets fed so far
SeededFromFed == Buffer_seed(EmptyDict, SummaryOf(fed))

\* C15: a fresh Buffer seeded from the day summary that aggregates a set of
\* packets of one day has, for every manifest observation it seeds, the same
\* min, max, sum and count as an empty Buffer that was fed those packets
\* through add_packet, in whatever order; and the seeded accumulators have
\* an empty history.
C15_SeedEqualsReplay ==
    fed # <<>> =>
      \A obs \in DOMAIN SeededFromFed :
        /\ obs \in DOMAIN buffer
        /\ buffer[obs].min = SeededFromFed[obs].min
        /\ buffer[obs].max = SeededFromFed[obs].max
        /\ buffer[obs].sum = SeededFromFed[obs].sum
        /\ buffer[obs].count = SeededFromFed[obs].count
        /\ SeededFromFed[obs].history = <<>>

\* the packets of the scenario: (5, 90) at 0, (10, 180) at 60, nulls at 120
WindScenario ==
    <<MkPacket([windSpeed |-> 5, windDir |-> 90], 0, US),
      MkPacket([windSpeed |-> 10, windDir |-> 180], 60, US),
      MkPacket([windSpeed |-> None, windDir |-> None], 120, US)>>

\* C16: after add_packet of the three packets of the scenario into an empty
\* buffer all three calls have completed, windSpeed has count 2 and max 10
\* with maxtime 60, and the history average of 'wind' over the window is
\* computed from exactly the two samples (5, 90) and (10, 180).
C16_WindScenario ==
    fed = WindScenario =>
      /\ call.outcome = "returned"
      /\ buffer["windSpeed"].count = 2
      /\ buffer["windSpeed"].max = 10
      /\ buffer["windSpeed"].maxtime = 60
      /\ LET avg == history_avg(buffer["wind"], 120, MAX_AGE)
         IN  avg.err = "none" /\ ~avg.none /\ avg.den = 2

\* C17: whenever run has just finished handling a package (loop, archive or
\* stats) its control queue holds at most 5 pending packages, however fast
\* packages are put on the queue.
C17_BacklogCutToFive == rafter => Len(control_queue) <= 5

C19_ShutDownSignalsAll ==
    svcOp.op = "shutDown" =>
      /\ svcOp.outcome = "returned"
      /\ \A i \in DOMAIN generators :
            generators[i].alive =>
              /\ generators[i].control_queue # <<>>
              /\ generators[i].control_queue[Len(generators[i].control_queue)].type
                    = "None"

\* a loop packet all of whose fields have a value
WellFormed(packet) == \A k \in DOMAIN packet : packet[k] # None

\* C20: an error raised while a loop packet is ingested is not fatal: a
\* well-formed loop packet that comes after it is added to the buffer and to
\* the cache and is dispatched to every generator.
C20_NextPacketAfterError ==
    (/\ svcOp.op = "new_loop_packet"
     /\ svcOp.after_error
     /\ WellFormed(svcOp.packet)) =>
      /\ svcOp.outcome = "returned"
      /\ \A obs \in DOMAIN svcOp.packet \ IGNORE :
            /\ obs \in DOMAIN buffer
            /\ buffer[obs].lasttime = svcOp.packet["dateTime"]
            /\ obs \in DOMAIN cache
            /\ cache[obs].ts = svcOp.packet["dateTime"]
      /\ \A i \in DOMAIN generators :
            /\ generators[i].control_queue # <<>>
            /\ generators[i].control_queue[Len(generators[i].control_queue)]
                  .payload["dateTime"] = svcOp.packet["dateTime"]

\* C28: whatever the order of the timestamps given to add_value, lasttime
\* never decreases and is the greatest timestamp of the accepted samples, and
\* last is the value of one of the samples that came with it: a sample
\* strictly older than lasttime changes neither last nor lasttime, a sample
\* whose timestamp is lasttime or later replaces both.
C28_LastIsLatest ==
    /\ acc.lasttime = accLog.top
    /\ accLog.top # None => acc.last \in accLog.topvals
    /\ accOp.before.lasttime # None => acc.lasttime >= accOp.before.lasttime
    /\ (accOp.op = "add_value" /\ ~NullSample) =>
         IF accOp.before.lasttime # None /\ accOp.ts < accOp.before.lasttime
           THEN /\ acc.last = accOp.before.last
                /\ acc.lasttime = accOp.before.lasttime
           ELSE /\ acc.last = accOp.val
                /\ acc.lasttime = accOp.ts

\* a sample older than lasttime came after a sample that replaced last at
\* the timestamp last had
C28_Witness ==
    /\ accOp.op = "add_value"
    /\ ~NullSample
    /\ accOp.ts = 0
    /\ accOp.before.lasttime = 60
    /\ accOp.before.last # accOp.val
    /\ acc.last = accOp.before.last
    /\ acc.lasttime = 60
    /\ accLog.n = 3
    /\ Cardinality(accLog.topvals) = 2

\* the entries of the history of self that history_max(ts, age) searches
InWindow(self, ts, age) ==
    {i \in 1..Len(self.history) : self.history[i][2] >= ts - age}

\* C30: history_max(ts, age) on a scalar accumulator returns the value and
\* the timestamp of a history sample that has the greatest value among the
\* samples with timestamp >= ts - age, returns None when there is no such
\* sample, and leaves the accumulator as it was.
C30_HistoryMaxIsGreatestValue ==
    (accOp.op = "history_max" /\ acc.kind = "scalar") =>
      /\ acc = accOp.before
      /\ accOp.result.err = "none"
      /\ accOp.result.none <=> InWindow(acc, accOp.ts, accOp.val) = {}
      /\ ~accOp.result.none =>
           /\ \E i \in InWindow(acc, accOp.ts, accOp.val) :
                 acc.history[i] = ObsTuple(accOp.result.value, accOp.result.ts)
           /\ \A i \in InWindow(acc, accOp.ts, accOp.val) :
                 acc.history[i][1] <= accOp.result.value

\* what does hold: the sample returned is a sample of the window that has
\* the greatest timestamp
HistoryMaxReturnsLatest ==
    (accOp.op = "history_max" /\ acc.kind = "scalar") =>
      /\ acc = accOp.before
      /\ accOp.result.err = "none"
      /\ accOp.result.none <=> InWindow(acc, accOp.ts, accOp.val) = {}
      /\ ~accOp.result.none =>
           /\ \E i \in InWindow(acc, accOp.ts, accOp.val) :
                 acc.history[i] = ObsTuple(accOp.result.value, accOp.result.ts)
           /\ \A i \in InWindow(acc, accOp.ts, accOp.val) :
                 acc.history[i][2] <= accOp.result.ts

\* C29: an accumulator of the buffer keeps a history exactly when its
\* observation is one of windSpeed, windDir, windGust and wind, however it
\* was created: 'wind' created from a windSpeed packet keeps one, 'windrun'
\* derived from windSpeed keeps none.
C29_HistoryIffHistManifest ==
    \A obs \in DOMAIN buffer :
        buffer[obs].kind \in {"scalar", "vector"} =>
          (buffer[obs].use_history <=> obs \in HIST_MANIFEST)

\* what does hold of the accumulators add_packet creates: a history for
\* windSpeed, windDir, windGust and windrun and for no other
LazyHistory ==
    (fed # <<>> /\ call.outcome = "returned") =>
      \A obs \in DOMAIN buffer :
          buffer[obs].use_history <=>
            obs \in {"windSpeed", "windDir", "windGust", "windrun"}

\* every accumulator of the buffer carries the unit system of the buffer
UnitsAgree ==
    std_unit_system # None =>
      \A obs \in DOMAIN buffer :
          buffer[obs].kind \in {"scalar", "vector"} =>
            buffer[obs].units = std_unit_system

\* C25: the unit system of the buffer, once set, never changes, and in every
\* reachable state every accumulator of the buffer carries it, whatever the
\* unit systems of the packets.
C25_OneUnitSystem ==
    /\ []UnitsAgree
    /\ [][std_unit_system # None => std_unit_system' = std_unit_system]_vars

\* what does hold: the unit system of the buffer and the units of each
\* accumulator, once set, never change
UnitsNeverChange ==
    [][/\ std_unit_system # None => std_unit_system' = std_unit_system
       /\ \A obs \in DOMAIN buffer :
            (buffer[obs].kind \in {"scalar", "vector"} /\ obs \in DOMAIN buffer')
              => buffer'[obs].units = buffer[obs].units]_vars

\* C24: constructing a CachedPacket from an archive record succeeds, and
\* afterwards every field of the record that is not None (dateTime and
\* usUnits apart) is cached with the timestamp of the record, so that
\* get_packet at that time returns these values.
C24_PrimedFromRecord ==
    cacheOp.op = "init_rec" =>
      /\ cacheOp.err = "none"
      /\ \A obs \in DOMAIN cacheOp.packet \ IGNORE :
            cacheOp.packet[obs] # None =>
              /\ obs \in DOMAIN cache
              /\ cache[obs].ts = cacheOp.ts
              /\ CachedPacket_get_packet(cache, cache_std_unit_system,
                                         cacheOp.ts, 600)[obs] = cache[obs].value

\* the synthesized packet that the last call of new_loop_packet put on the
\* control queue of generator i
Dispatched(i) ==
    generators[i].control_queue[Len(generators[i].control_queue)].payload

\* C23: in the packet dispatched for a loop packet, a field whose cached
\* value is older than the configured max_cache_age is None and a field no
\* older than it carries the cached value, whatever max_cache_age is
\* configured.
C23_ConfiguredMaxCacheAge ==
    (svcOp.op = "new_loop_packet" /\ svcOp.outcome = "returned") =>
      \A i \in DOMAIN generators : \A obs \in DOMAIN cache :
          Dispatched(i)[obs] =
            IF svcOp.packet["dateTime"] - cache[obs].ts
                 > generators[i].max_cache_age
              THEN None
              ELSE cache[obs].value

\* what does hold: the fields are nulled at the age of 600 seconds
DispatchedUnder600 ==
    (svcOp.op = "new_loop_packet" /\ svcOp.outcome = "returned") =>
      \A i \in DOMAIN generators : \A obs \in DOMAIN cache :
          Dispatched(i)[obs] =
            IF svcOp.packet["dateTime"] - cache[obs].ts > 600
              THEN None
              ELSE cache[obs].value

\* for every loop packet for which new_loop_packet returned, exactly one
\* 'loop' package was put on the control queue of every generator, in the
\* order of arrival, and the package of the last call carries the packet
\* synthesized from the cache after the buffer and the cache were updated
\* from the loop packet
DispatchOnReturn ==
    /\ \A i \in DOMAIN generators :
          /\ Len(generators[i].control_queue) = Len(svcOp.done)
          /\ \A k \in 1..Len(svcOp.done) :
                /\ generators[i].control_queue[k].type = "loop"
                /\ generators[i].control_queue[k].payload["dateTime"]
                     = svcOp.done[k]["dateTime"]
    /\ (svcOp.op = "new_loop_packet" /\ svcOp.outcome = "returned") =>
         /\ call.op = "add_packet" /\ call.packet = svcOp.packet
         /\ \A obs \in DOMAIN svcOp.packet \ IGNORE :
               svcOp.packet[obs] # None =>
                 /\ buffer[obs].count >= 1
                 /\ obs \in DOMAIN cache /\ cache[obs].ts = svcOp.packet["dateTime"]
         /\ \A i \in DOMAIN generators :
               Dispatched(i) =
                 CachedPacket_get_packet(cache, cache_std_unit_system,
                                         svcOp.packet["dateTime"], 600)

\* C26: for every loop packet given to new_loop_packet that raises no error
\* of its own, exactly one 'loop' package carrying the synthesized cached
\* packet is put on the control queue of every generator, after the buffer
\* and the cache were updated from the packet, and every queue receives the
\* packages in the order the packets arrived.
C26_OnePackagePerPacket ==
    /\ (svcOp.op = "new_loop_packet" /\ svcOp.outcome \in {"returned", "blocked"})
         => svcOp.outcome = "returned"
    /\ DispatchOnReturn

\* C21: whatever exception is raised while a generator thread processes one
\* loop packet (in the snapshot calculation, the file write or the export),
\* it is caught, the packet is dropped and the thread keeps running.
C21_WorkerSurvivesPacket ==
    (wrkOp.op = "process_packet" /\ wrkOp.hit # "none") =>
      generators[wrkOp.i].alive

\* what does hold: the thread survives an exception of calculate or
\* write_data and an export failure the exporter catches itself
WorkerSurvivesCaught ==
    (wrkOp.op = "process_packet" /\ wrkOp.hit \in {"calculate", "write_data", "sink"})
      => generators[wrkOp.i].alive

\* C22: on a loop packet the generator thread skips generation exactly when
\* less than min_interval seconds have passed since its last generation:
\* when min_interval seconds or more have passed it generates, and with
\* min_interval 0 or omitted it does so on every loop packet.
C22_SkipIffWithinInterval ==
    wrkOp.op = "process_packet" =>
      (wrkOp.outcome = "skipped" <=>
         /\ workers[wrkOp.i].min_interval # None
         /\ wrkOp.at - wrkOp.last_write < workers[wrkOp.i].min_interval)

\* what does hold: generation is skipped exactly when no more than
\* min_interval seconds have passed
SkipIffNotAfterInterval ==
    wrkOp.op = "process_packet" =>
      (wrkOp.outcome = "skipped" <=>
         /\ workers[wrkOp.i].min_interval # None
         /\ wrkOp.at - wrkOp.last_write <= workers[wrkOp.i].min_interval)

\* the step taken is generator thread i processing a package
Processed(i) ==
    /\ wrkOp'.i = i
    /\ Len(generators'[i].control_queue) = Len(generators[i].control_queue) - 1

\* C27: a failure of the export sink of one generator thread changes nothing
\* in the buffer, in the packet cache, or in the control queue, the time of
\* the last write or the running state of any other generator thread.
C27_ExportFailureIsLocal ==
    [][\A i \in DOMAIN generators :
         (Processed(i) /\ wrkOp'.hit \in {"sink", "export"}) =>
           /\ buffer' = buffer
           /\ std_unit_system' = std_unit_system
           /\ cache' = cache
           /\ cache_std_unit_system' = cache_std_unit_system
           /\ \A j \in DOMAIN generators \ {i} :
                 /\ generators'[j] = generators[j]
                 /\ workers'[j] = workers[j]]_vars

\* the exporter of thread 1 raised and ended the thread, while the buffer
\* and the cache hold a loop packet and thread 2 runs, has written and has a
\* package waiting
C27_Witness ==
    /\ wrkOp.op = "process_packet"
    /\ wrkOp.i = 1
    /\ wrkOp.hit = "export"
    /\ ~generators[1].alive
    /\ generators[2].alive
    /\ generators[2].control_queue # <<>>
    /\ workers[2].last_write > 0
    /\ "outTemp" \in DOMAIN buffer
    /\ "outTemp" \in DOMAIN cache

\* was an entry of the history the last add_value call found at least
\* MAX_AGE old at the time of that call?
OldestWasOld ==
    \E i \in 1..Len(accOp.before.history) :
        accOp.before.history[i][2] <= accOp.ts - MAX_AGE

\* did the last add_value call put its sample in the history?
Inserted ==
    /\ accOp.op = "add_value"
    /\ acc.use_history
    /\ ~NullSample
    /\ acc.kind = "vector" => accOp.val[2] # None

\* C31: after add_value(v, t) with a non-null v on an accumulator that keeps
\* a history, history_full is true exactly when the oldest entry the history
\* held at the time of the call had a timestamp <= t - MAX_AGE.
C31_HistoryFullFlag ==
    (accOp.op = "add_value" /\ acc.use_history /\ ~NullSample) =>
      (acc.history_full <=> OldestWasOld)

\* the same for the calls that put their sample in the history
HistoryFullOnInsert == Inserted => (acc.history_full <=> OldestWasOld)

\* C32: in every state of every accumulator, after any sequence of add_value
\* and day_reset calls with any sample values, count = 0 exactly when
\* sum = 0.
C32_CountZeroIffSumZero == (acc.count = 0) <=> (acc.sum = 0)

\* C32 as amended: count = 0 implies sum = 0 (and so a sum that is not 0
\* comes with a count that is not 0).
C32_CountZeroThenSumZero == (acc.count = 0) => (acc.sum = 0)

\* a day_reset has emptied an accumulator whose samples summed to something
\* other than 0
C32_Witness ==
    /\ accOp.op = "day_reset"
    /\ accOp.before.count > 0
    /\ accOp.before.sum # 0
    /\ acc.count = 0
    /\ acc.sum = 0

\* count and sum of the windrun accumulator of a Buffer, 0 when it has none
WindrunCount(buf) ==
    IF "windrun" \in DOMAIN buf THEN buf["windrun"].count ELSE 0

WindrunSum(buf) ==
    IF "windrun" \in DOMAIN buf THEN buf["windrun"].sum ELSE 0

\* The step of an add_packet call that gets as far as its loop over the
\* observations (the lock is free and the day reset, if any, does not
\* raise), seen from the windrun accumulator.  base is the buffer after the
\* day reset, speed the windSpeed of the converted packet.  withNull says
\* whether packets whose windSpeed is None are looked at.
WindrunStep(withNull) ==
    LET p == call'.packet
        ts == p["dateTime"]
        crosses == ~includesArchiveTime(timespan, ts)
        reached == /\ npackets' = npackets + 1
                   /\ lock = "free"
                   /\ crosses => start_of_day_reset(buffer).err = "none"
        base == IF crosses THEN start_of_day_reset(buffer).buffer ELSE buffer
        conv == to_std_system(p, std_unit_system')
        carries == "windSpeed" \in DOMAIN p /\ "windrun" \notin DOMAIN p
        sample == convertStd("windrun",
                             conv["windSpeed"] * (ts - last_windSpeed_ts),
                             conv["usUnits"], buffer'["windrun"].units)
        field == IF "windrun" \in DOMAIN p /\ p["windrun"] # None THEN 1 ELSE 0
    IN  (reached /\ (withNull \/ ~carries \/ p["windSpeed"] # None)) =>
          IF carries /\ last_windSpeed_ts # None
            THEN /\ last_windSpeed_ts' = ts
                 /\ IF conv["windSpeed"] # None
                      THEN /\ "windrun" \in DOMAIN buffer'
                           /\ buffer'["windrun"].count = WindrunCount(base) + 1
                           /\ buffer'["windrun"].sum = WindrunSum(base) + sample
                      ELSE /\ WindrunCount(buffer') = WindrunCount(base)
                           /\ WindrunSum(buffer') = WindrunSum(base)
          ELSE IF carries
            THEN /\ last_windSpeed_ts' = ts
                 /\ WindrunCount(buffer') = WindrunCount(base)
                 /\ WindrunSum(buffer') = WindrunSum(base)
          ELSE /\ last_windSpeed_ts' = last_windSpeed_ts
               /\ WindrunCount(buffer') = WindrunCount(base) + field

\* C33: a windrun sample is derived exactly when the packet carries
\* windSpeed and no windrun and an earlier such packet has set
\* last_windSpeed_ts; the sample is windSpeed times the time since
\* last_windSpeed_ts, and last_windSpeed_ts becomes the time of the packet;
\* the first windSpeed packet adds no windrun sample.
C33_WindrunDerived == [][WindrunStep(TRUE)]_vars

\* the same for the packets whose windSpeed, if they carry one, is not None
WindrunDerivedFromSpeed == [][WindrunStep(FALSE)]_vars

\* C34: the last-write time of a generator thread changes only when the
\* file was written: a packet skipped by the minimum-interval test and a
\* packet whose calculate or write_data raised leave last_write as it was,
\* and after such a failure the next packet is not held back by the
\* minimum interval.
C34_LastWriteOnlyOnSuccess ==
    /\ [][\A i \in DOMAIN generators :
            /\ (Processed(i) /\ wrkOp'.outcome \in {"skipped", "dropped"})
                  => workers'[i].last_write = workers[i].last_write
            /\ (Processed(i) /\ wrkOp'.outcome = "generated")
                  => workers'[i].last_write = now
            /\ ~Processed(i) => workers'[i].last_write = workers[i].last_write]_vars
    /\ [](\A i \in DOMAIN generators :
            (wrkOp.i = i /\ wrkOp.outcome = "dropped") => due(workers[i], now))

\* write_data raised for a packet that came after the minimum interval
\* since an earlier generation, and the time of that generation stands
C34_Witness ==
    /\ wrkOp.op = "process_packet"
    /\ wrkOp.outcome = "dropped"
    /\ wrkOp.hit = "write_data"
    /\ workers[wrkOp.i].min_interval = 2
    /\ wrkOp.last_write >= ClockStart
    /\ workers[wrkOp.i].last_write = wrkOp.last_write
    /\ wrkOp.at > wrkOp.last_write + 2

\* C35: the windrose of a generator thread is computed at start-up and when
\* an 'archive' package is handled, and at no other time: handling a 'loop'
\* package makes no windrose query and leaves the rose as it was.
C35_RoseOnlyOnArchive ==
    [][/\ (rpc = "handle" /\ rpkg = "loop") => rose' = rose
       /\ rose' # rose => (rpc = "handle" /\ rpkg = "archive" /\ rpc' = "get")]_vars

\* a 'loop' package was handled after an 'archive' package had renewed the
\* rose, and the rose is that of the 'archive' package
C35_Witness ==
    /\ rafter
    /\ rlast = "loop"
    /\ rose = 2
    /\ nput = 2
    /\ control_queue = <<>>

\* is the entry of the Buffer under key o an accumulator of an observation
\* of the manifest?
IsAccumulator(o) ==
    /\ o \in ManifestSet
    /\ buffer[o].kind \in {"scalar", "vector"}

\* C36: in every state after the service is constructed, every entry of the
\* Buffer is a scalar or vector accumulator whose key is an observation name
\* of the manifest.
C36_EntriesAreAccumulators == \A o \in DOMAIN buffer : IsAccumulator(o)

\* the same for every entry but 'fred'
EntriesButFredAreAccumulators ==
    /\ "fred" \in DOMAIN buffer
    /\ \A o \in DOMAIN buffer \ {"fred"} : IsAccumulator(o)

\* C37: the lock of the Buffer is free whenever add_packet or seed has
\* returned or raised: an exception in the day reset or in the handler of an
\* observation does not leave the lock held.
C37_LockFreeAfterCall ==
    (call.op \in {"init", "add_packet"} /\ call.outcome # "blocked") =>
      lock = "free"

\* the lock is free after every call that returned
LockFreeAfterReturn == call.outcome = "returned" => lock = "free"

\* the lock is held after every call that raised
LockHeldAfterError ==
    call.outcome \notin {"returned", "blocked"} => lock = "ingest"

\* the step is an add_value call on a vector accumulator
VectorAdd == acc.kind = "vector" /\ accOp'.op = "add_value" /\ nops' = nops + 1

\* C38: between day resets the sumtime of a vector accumulator never
\* decreases and is never negative, whatever the order of the timestamps of
\* the samples, a first sample with timestamp 0 included.
C38_SumtimeMonotone ==
    /\ [][VectorAdd => acc'.sumtime >= acc.sumtime]_vars
    /\ [](acc.kind = "vector" => acc.sumtime >= 0)

\* the same for the samples that do not come before the latest one
SumtimeMonotoneInOrder ==
    [][(VectorAdd /\ (acc.lasttime = None \/ accOp'.ts >= acc.lasttime))
         => acc'.sumtime >= acc.sumtime]_vars

\* do the 'wind' and the 'windSpeed' accumulators of the Buffer agree?
WindAgree(buf) ==
    ("wind" \in DOMAIN buf /\ "windSpeed" \in DOMAIN buf) =>
      /\ buf["wind"].count = buf["windSpeed"].count
      /\ buf["wind"].sum = buf["windSpeed"].sum
      /\ buf["wind"].max = buf["windSpeed"].max
      /\ buf["wind"].maxtime = buf["windSpeed"].maxtime

\* C39: in a buffer that was not seeded, after any add_packet calls (those
\* that raise and those that cross a day boundary included) the 'wind' vector
\* and the 'windSpeed' scalar have the same count, sum, max and maxtime.
C39_WindAndWindSpeedAgree == WindAgree(buffer)

\* the two agree after every call that did not raise in the day reset
WindAgreeUnlessResetRaised ==
    [][(WindAgree(buffer) /\ ~(call'.crossed /\ call'.outcome = "KeyError"))
         => WindAgree(buffer')]_vars

====
